---- MODULE Spec2Model ----
(***************************************************************************)
(* The AI subsystem of src/src/web/public/app.js: behaviour-tree nodes     *)
(* (Sequence, Selector, Inverter, Condition, Action, Parallel,             *)
(* RepeatUntilFailure, Wait), the BehaviorTree wrapper, and the AISystem   *)
(* agent registry that ticks the trees.                                    *)
(*                                                                         *)
(* Every node keeps its per-agent progress in a Map keyed by the agent's   *)
(* id string.  A Map entry is modelled as an option: <<>> when the key is  *)
(* absent, <<v>> when the key maps to v.                                   *)
(***************************************************************************)
EXTENDS Integers, Sequences, FiniteSets, TLC

\* BehaviorStatus enum
SUCCESS == "SUCCESS"
FAILURE == "FAILURE"
RUNNING == "RUNNING"
BehaviorStatus == {SUCCESS, FAILURE, RUNNING}

None == <<>>
Some(v) == <<v>>

\* Agent ids (Agent.getId() strings) the model draws from.
AgentIds == {"a1", "a2"}

\* Largest deltaTime of one tick, in time units; Wait durations are in the same units.
MaxDt == 2
DeltaTimes == 1..MaxDt

(***************************************************************************)
(* The node instances world setup constructs.  Each entry is one node      *)
(* object: its class, its children (constructor argument) and, for Wait,   *)
(* its duration.  A Parallel's requiredSuccesses argument is drawn at      *)
(* Init (ctorArg).  Six trees are wired from them, seven more from the     *)
(* behaviours of the AISystem factories, and four from nested and empty    *)
(* composites; one of them is the BehaviorTree instance of a behaviour     *)
(* (root).                                                                 *)
(***************************************************************************)
N(type, children, duration) == [type |-> type, children |-> children, duration |-> duration]

NodeTable ==
  << N("Sequence", <<2, 3, 4>>, 0),          \*  1  tree 1
     N("Action", <<>>, 0),                   \*  2
     N("Wait", <<>>, 2),                     \*  3
     N("Action", <<>>, 0),                   \*  4
     N("Selector", <<6, 7, 9>>, 0),          \*  5  tree 2, the mirror image of tree 1
     N("Action", <<>>, 0),                   \*  6
     N("Inverter", <<8>>, 0),                \*  7
     N("Wait", <<>>, 2),                     \*  8
     N("Action", <<>>, 0),                   \*  9
     N("Sequence", <<11, 14>>, 0),           \* 10  tree 3
     N("Parallel", <<12, 13>>, 0),           \* 11
     N("Action", <<>>, 0),                   \* 12
     N("Wait", <<>>, 2),                     \* 13
     N("Action", <<>>, 0),                   \* 14
     N("Parallel", <<16, 17>>, 0),           \* 15  tree 4
     N("Action", <<>>, 0),                   \* 16
     N("Action", <<>>, 0),                   \* 17
     N("RepeatUntilFailure", <<19>>, 0),     \* 18  tree 5
     N("Sequence", <<20, 21>>, 0),           \* 19
     N("Action", <<>>, 0),                   \* 20
     N("Inverter", <<22>>, 0),               \* 21
     N("Condition", <<>>, 0),                \* 22
     N("Sequence", <<24, 25>>, 0),           \* 23  tree 6
     N("Action", <<>>, 0),                   \* 24
     N("Wait", <<>>, 2),                     \* 25
     N("Patrol", <<>>, 0),                   \* 26  createPatrolBehavior(points)
     N("Patrol", <<>>, 0),                   \* 27  createPatrolBehavior(points, false)
     N("Chase", <<>>, 0),                    \* 28  createChaseBehavior(selector, 2)
     N("Wander", <<>>, 0),                   \* 29  createWanderBehavior(3, 2)
     N("Flee", <<>>, 0),                     \* 30  createFleeFromBehavior(selector, 3)
     N("Selector", <<28, 26>>, 0),           \* 31  chase, or else patrol
     N("Sequence", <<30, 28>>, 0),           \* 32  flee, then chase
     N("Selector", <<34, 37>>, 0),           \* 33  tree 7: a Sequence inside a Selector
     N("Sequence", <<35, 36>>, 0),           \* 34
     N("Action", <<>>, 0),                   \* 35
     N("Wait", <<>>, 2),                     \* 36
     N("Action", <<>>, 0),                   \* 37
     N("Sequence", <<>>, 0),                 \* 38  new Sequence([])
     N("Selector", <<>>, 0),                 \* 39  new Selector([])
     N("Parallel", <<>>, 0)                  \* 40  new Parallel([]), new Parallel([], k)
  >>

NodeIds == DOMAIN NodeTable
Type(n) == NodeTable[n].type
Children(n) == NodeTable[n].children
Duration(n) == NodeTable[n].duration
Roots == {1, 5, 10, 15, 18, 23}
FactoryRoots == {26, 27, 28, 29, 30, 31, 32}
CompositeRoots == {33, 38, 39, 40}
ParallelNodes == {n \in NodeIds : Type(n) = "Parallel"}

RECURSIVE Descendants(_)
Descendants(n) ==
  {n} \cup UNION {Descendants(Children(n)[i]) : i \in DOMAIN Children(n)}

\* The requiredSuccesses arguments a Parallel is constructed with (-1: not given).
RequiredArgs(n) ==
  IF n = 15 THEN {-1, 0, 1, 2, 3} ELSE IF n = 40 THEN {-1, 0, 1} ELSE {1}

VARIABLES
  root,               \* BehaviorTree.root of the tree the agents share
  ctorArg,            \* Parallel constructor argument requiredSuccesses, per Parallel node
  requiredSuccesses,  \* Parallel.requiredSuccesses, per Parallel node
  currentIndex,       \* Sequence/Selector.currentIndex : Map<agentId, number>, per node
  statuses,           \* Parallel.statuses : Map<agentId, BehaviorStatus[]>, per node
  isRunning,          \* Action.isRunning : Map<agentId, boolean>, per node
  timeElapsed,        \* Wait.timeElapsed : Map<agentId, number>, per node
  agents,             \* AISystem.agents : Map<id, Agent>, as the ids in insertion order
  behaviorTree,       \* Agent.behaviorTree of the agent registered under each id
  isInitialized,      \* AISystem.isInitialized
  last,               \* the last call made and what it returned
  hooks,              \* onEnter / fn / onExit calls the last call made, in order
  calls               \* node execute / reset calls the last call made, in return order

VARIABLES
  vertices,           \* NavMesh.vertices of the navigation graph world setup builds
  nodes,              \* NavMesh.nodes : Map<number, NavMeshNode>, as the nodes in insertion order
  navigationMesh,     \* AISystem.navigationMesh: unset, or a reference to the graph
  found               \* what the last findPath call did and returned

VARIABLES
  transform,          \* gameObject.transform of each agent: unset, or its position and rotation
  velocity,           \* Agent.velocity
  path,               \* Agent.path
  currentPathIndex,   \* Agent.currentPathIndex
  currentTarget,      \* Agent.currentTarget: unset, or a position
  blackboard          \* Agent.blackboard : Map<string, any>, by key

treeVars == <<root, ctorArg, requiredSuccesses>>
navVars == <<vertices, nodes, navigationMesh, found>>
moveVars == <<transform, velocity, path, currentPathIndex, currentTarget, blackboard>>
nodeVars == <<currentIndex, statuses, isRunning, timeElapsed>>
sysVars == <<agents, behaviorTree, isInitialized>>
obsVars == <<last, hooks, calls>>
vars == <<treeVars, nodeVars, sysVars, obsVars, navVars, moveVars>>

\* The keyed maps of all nodes, as one value the node methods transform.
\* For the closures that work on the agent, it also carries the agents, the
\* AISystem's navigationMesh reference and the graph behind it.
NodeState ==
  [currentIndex |-> currentIndex, statuses |-> statuses,
   isRunning |-> isRunning, timeElapsed |-> timeElapsed,
   agent |-> [a \in AgentIds |->
                [transform |-> transform[a], velocity |-> velocity[a], path |-> path[a],
                 currentPathIndex |-> currentPathIndex[a],
                 currentTarget |-> currentTarget[a], blackboard |-> blackboard[a]]],
   navigationMesh |-> navigationMesh,
   mesh |-> [vertices |-> vertices, nodes |-> nodes]]

EmptyMaps == [n \in NodeIds |-> [a \in AgentIds |-> None]]
EmptyNodeState ==
  [currentIndex |-> EmptyMaps, statuses |-> EmptyMaps,
   isRunning |-> EmptyMaps, timeElapsed |-> EmptyMaps]

\* The node's own keyed entry for the agent.
Own(st, n, a) ==
  CASE Type(n) \in {"Sequence", "Selector"} -> st.currentIndex[n][a]
    [] Type(n) = "Parallel" -> st.statuses[n][a]
    [] Type(n) \in {"Action", "Patrol", "Chase", "Wander", "Flee"} -> st.isRunning[n][a]
    [] Type(n) = "Wait" -> st.timeElapsed[n][a]
    [] OTHER -> None

\* What one execute call yields: the maps after it, its status, and what it called.
Result(st, status, hk, cl, kids) ==
  [st |-> st, status |-> status, hooks |-> hk, calls |-> cl, kids |-> kids]

Hook(k, n, a, s) == [k |-> k, n |-> n, a |-> a, status |-> s]
Call(op, n, a, pre, post, kids, s) ==
  [op |-> op, n |-> n, a |-> a, pre |-> pre, post |-> post, kids |-> kids, status |-> s]

\* What the closures of the leaves return on one execute: the Action functions'
\* statuses and the Condition predicates' booleans.
Oracles(r) ==
  [act : [{n \in Descendants(r) : Type(n) = "Action"} -> BehaviorStatus],
   cond : [{n \in Descendants(r) : Type(n) = "Condition"} -> BOOLEAN]]

\* What a reset yields: the maps after it and what it called.
Cleared(st, hk, cl) == [st |-> st, hooks |-> hk, calls |-> cl]

Then(acc, r) == Cleared(r.st, acc.hooks \o r.hooks, acc.calls \o r.calls)

HasKey(map, n, a) == map[n][a] # None

\* this.isRunning.get(agentId) || false
WasRunning(st, n, a) == IF HasKey(st.isRunning, n, a) THEN st.isRunning[n][a][1] ELSE FALSE

----------------------------------------------------------------------------
(***************************************************************************)
(* The navigation graph (NavMesh).  NavMesh.nodes is a Map from node id to *)
(* NavMeshNode, modelled as the sequence of its nodes in insertion order;  *)
(* a node's connections Map (neighbour id -> cost) is the sequence of its  *)
(* entries in insertion order.  Positions are taken from points whose      *)
(* pairwise distances are whole numbers, so Math.sqrt is exact on them.    *)
(***************************************************************************)
NavNodeIds == {1, 2, 3, 4}

\* Number.POSITIVE_INFINITY, above every cost sum that occurs
Infinity == 1000000

\* Math.sqrt, on the squares that occur
Sqrt(n) == CHOOSE r \in 0..n : r * r = n

\* Math.sqrt(dx * dx + dy * dy + dz * dz), as connectNodes and getClosestNode compute it
Distance(a, b) ==
  Sqrt((b[1] - a[1]) * (b[1] - a[1]) + (b[2] - a[2]) * (b[2] - a[2])
         + (b[3] - a[3]) * (b[3] - a[3]))

\* NavMesh.heuristic(a, b): the Euclidean distance
heuristic(a, b) ==
  Sqrt((b[1] - a[1]) * (b[1] - a[1]) + (b[2] - a[2]) * (b[2] - a[2])
         + (b[3] - a[3]) * (b[3] - a[3]))

\* new NavMeshNode(id, position)
NavMeshNode(id, position) == [id |-> id, position |-> position, connections |-> <<>>]

\* new NavMesh()
EmptyMesh == [vertices |-> <<>>, nodes |-> <<>>]

\* The place of the key in a Map's insertion order, 0 when the Map has no such key
NodeIndex(ns, id) ==
  IF \E i \in DOMAIN ns : ns[i].id = id THEN CHOOSE i \in DOMAIN ns : ns[i].id = id ELSE 0

ConnectionIndex(conns, nodeId) ==
  IF \E i \in DOMAIN conns : conns[i].nodeId = nodeId
    THEN CHOOSE i \in DOMAIN conns : conns[i].nodeId = nodeId ELSE 0

\* this.nodes.has(id)
NodesHas(ns, id) == NodeIndex(ns, id) # 0

\* this.nodes.get(id)!
NodesGet(ns, id) == ns[NodeIndex(ns, id)]

\* this.nodes.set(id, node): an existing key keeps its place, a new key goes last
NodesSet(ns, node) ==
  IF NodesHas(ns, node.id) THEN [ns EXCEPT ![NodeIndex(ns, node.id)] = node]
  ELSE Append(ns, node)

\* NavMesh.addNode(id, position)
addNode(m, id, position) ==
  [vertices |-> Append(m.vertices, position),
   nodes |-> NodesSet(m.nodes, NavMeshNode(id, position))]

\* NavMeshNode.addConnection(nodeId, cost): this.connections.set(nodeId, cost)
addConnection(conns, nodeId, cost) ==
  IF ConnectionIndex(conns, nodeId) # 0
    THEN [conns EXCEPT ![ConnectionIndex(conns, nodeId)] = [nodeId |-> nodeId, cost |-> cost]]
    ELSE Append(conns, [nodeId |-> nodeId, cost |-> cost])

\* node.addConnection(nodeId, cost) on the node registered under id
Connected(ns, id, nodeId, cost) ==
  [ns EXCEPT ![NodeIndex(ns, id)].connections = addConnection(@, nodeId, cost)]

\* The rest of connectNodes once both nodes were found
\* A connectNodes that records the reverse edge whatever bidirectional says
ConnectFound_BothWays(ns, fromId, toId, bidirectional, cost) ==
  Connected(Connected(ns, fromId, toId, cost), toId, fromId, cost)

ConnectFound(ns, fromId, toId, bidirectional, cost) ==
  IF bidirectional THEN Connected(Connected(ns, fromId, toId, cost), toId, fromId, cost)
  ELSE Connected(ns, fromId, toId, cost)

\* A connectNodes that, told to connect both ways, still records the reverse edge
\* on the node it did find
Aborted_HalfEdge(m, fromId, toId, bidirectional) ==
  IF bidirectional /\ NodesHas(m.nodes, toId)
    THEN [m EXCEPT !.nodes = Connected(m.nodes, toId, fromId, 0)]
    ELSE m

\* console.error(...); return;
Aborted(m, fromId, toId, bidirectional) == m

\* NavMesh.connectNodes(fromId, toId, bidirectional)
connectNodes(m, fromId, toId, bidirectional) ==
  IF ~NodesHas(m.nodes, fromId) \/ ~NodesHas(m.nodes, toId)
    THEN Aborted(m, fromId, toId, bidirectional)
  ELSE [m EXCEPT !.nodes =
          ConnectFound(m.nodes, fromId, toId, bidirectional,
                       Distance(NodesGet(m.nodes, fromId).position,
                                NodesGet(m.nodes, toId).position))]

RECURSIVE ClosestFrom(_, _, _, _, _)
\* The forEach of getClosestNode from the i-th node on; closestNode is an option
ClosestFrom(ns, i, position, closestNode, closestDistance) ==
  IF i > Len(ns) THEN closestNode
  ELSE ClosestFrom(ns, i + 1, position,
         IF Distance(position, ns[i].position) < closestDistance
           THEN Some(ns[i].id) ELSE closestNode,
         IF Distance(position, ns[i].position) < closestDistance
           THEN Distance(position, ns[i].position) ELSE closestDistance)

\* NavMesh.getClosestNode(position): the node's id as an option, None for null
getClosestNode(ns, position) == ClosestFrom(ns, 1, position, None, Infinity)

\* A getClosestPoint that returns the node registered first
getClosestPoint_First(m, position) ==
  IF Len(m.nodes) = 0 THEN <<0, 0, 0>> ELSE m.nodes[1].position

\* NavMesh.getClosestPoint(position)
getClosestPoint(m, position) ==
  IF getClosestNode(m.nodes, position) = None THEN <<0, 0, 0>>
  ELSE NodesGet(m.nodes, getClosestNode(m.nodes, position)[1]).position

\* How finely Math.random() is followed: it returns k / RandomSteps, k < RandomSteps
RandomSteps == 4
Randoms == 0..(RandomSteps - 1)

\* NavMesh.getRandomPoint(), Math.random() returning random / RandomSteps
getRandomPoint(m, random) ==
  IF Len(m.nodes) = 0 THEN <<0, 0, 0>>
  ELSE m.nodes[((random * Len(m.nodes)) \div RandomSteps) + 1].position

\* map.get(id) ?? Infinity
GetOrInfinity(map, id) == IF map[id] = None THEN Infinity ELSE map[id][1]

\* x + cost in floating point, where Infinity + cost = Infinity
Plus(x, cost) == IF x = Infinity THEN Infinity ELSE x + cost

Includes(seq, x) == \E i \in DOMAIN seq : seq[i] = x

\* openSet.splice(openSet.indexOf(current)): removes current and all after it
Splice_ToEnd(openSet, current) ==
  LET at == CHOOSE i \in DOMAIN openSet :
              openSet[i] = current /\ \A j \in 1..(i - 1) : openSet[j] # current
  IN SubSeq(openSet, 1, at - 1)

\* openSet.splice(openSet.indexOf(current), 1)
Splice(openSet, current) ==
  LET at == CHOOSE i \in DOMAIN openSet :
              openSet[i] = current /\ \A j \in 1..(i - 1) : openSet[j] # current
  IN SubSeq(openSet, 1, at - 1) \o SubSeq(openSet, at + 1, Len(openSet))

\* The maps of one findPath call
SearchState(openSet, cameFrom, gScore, fScore, expanded) ==
  [openSet |-> openSet, cameFrom |-> cameFrom, gScore |-> gScore, fScore |-> fScore,
   expanded |-> expanded]

NoScores == [id \in NavNodeIds |-> None]

\* What is kept of one round of the while loop: the open set and the scores it
\* selected from, and the member it selected
Round(s, current) ==
  [current |-> current, openSet |-> s.openSet, gScore |-> s.gScore, fScore |-> s.fScore]

RECURSIVE LowestFrom_Latest(_, _, _, _)
\* A scan that on equal fScore takes the later member
LowestFrom_Latest(openSet, fScore, i, current) ==
  IF i > Len(openSet) THEN current
  ELSE LowestFrom_Latest(openSet, fScore, i + 1,
         IF GetOrInfinity(fScore, openSet[i]) <= GetOrInfinity(fScore, current)
           THEN openSet[i] ELSE current)

RECURSIVE LowestFrom(_, _, _, _)
\* The scan for the lowest fScore from the i-th member of the open set on
LowestFrom(openSet, fScore, i, current) ==
  IF i > Len(openSet) THEN current
  ELSE LowestFrom(openSet, fScore, i + 1,
         IF GetOrInfinity(fScore, openSet[i]) < GetOrInfinity(fScore, current)
           THEN openSet[i] ELSE current)

\* A relaxation that also takes a tentative gScore equal to the recorded one
Improves_OrEqual(tentativeGScore, gScore, neighborId) ==
  tentativeGScore <= GetOrInfinity(gScore, neighborId)

\* tentativeGScore < (gScore.get(neighborId) ?? Infinity)
Improves(tentativeGScore, gScore, neighborId) ==
  tentativeGScore < GetOrInfinity(gScore, neighborId)

\* A relaxation that also overwrites the scores of a neighbour still waiting in
\* the open set, whether or not they improve
Relaxed_OverwritesOpen(ns, endPosition, current, neighborId, tentativeGScore, s) ==
  IF Improves(tentativeGScore, s.gScore, neighborId) \/ Includes(s.openSet, neighborId)
    THEN SearchState(
           IF Includes(s.openSet, neighborId) THEN s.openSet
           ELSE Append(s.openSet, neighborId),
           [s.cameFrom EXCEPT ![neighborId] = Some(current)],
           [s.gScore EXCEPT ![neighborId] = Some(tentativeGScore)],
           [s.fScore EXCEPT ![neighborId] =
              Some(tentativeGScore
                     + heuristic(NodesGet(ns, neighborId).position, endPosition))],
           s.expanded)
    ELSE s

\* The body of connections.forEach for one connection, given its tentative gScore
Relaxed(ns, endPosition, current, neighborId, tentativeGScore, s) ==
  IF Improves(tentativeGScore, s.gScore, neighborId)
    THEN SearchState(
           IF Includes(s.openSet, neighborId) THEN s.openSet
           ELSE Append(s.openSet, neighborId),
           [s.cameFrom EXCEPT ![neighborId] = Some(current)],
           [s.gScore EXCEPT ![neighborId] = Some(tentativeGScore)],
           [s.fScore EXCEPT ![neighborId] =
              Some(tentativeGScore
                     + heuristic(NodesGet(ns, neighborId).position, endPosition))],
           s.expanded)
    ELSE s

RECURSIVE ConnectionsForEach(_, _, _, _, _, _)
\* currentNode.connections.forEach(...) from the i-th connection on
ConnectionsForEach(ns, endPosition, current, conns, i, s) ==
  IF i > Len(conns) THEN s
  ELSE ConnectionsForEach(ns, endPosition, current, conns, i + 1,
         Relaxed(ns, endPosition, current, conns[i].nodeId,
                 Plus(GetOrInfinity(s.gScore, current), conns[i].cost), s))

\* What the while loop of findPath ends with
Reached(current, s) == [reached |-> TRUE, current |-> current, s |-> s]
Exhausted(s) == [reached |-> FALSE, current |-> 0, s |-> s]

\* The node the while loop expands next: the first member with the lowest fScore
SelectCurrent(openSet, fScore, endId) == LowestFrom(openSet, fScore, 2, openSet[1])

RECURSIVE WhileOpen(_, _, _)
\* One round of the loop with the member it selected
Expand(ns, endId, s, current) ==
  IF current = endId
    THEN Reached(current, [s EXCEPT !.expanded = Append(@, Round(s, current))])
  ELSE WhileOpen(ns, endId,
         ConnectionsForEach(ns, NodesGet(ns, endId).position, current,
                            NodesGet(ns, current).connections, 1,
                            SearchState(Splice(s.openSet, current), s.cameFrom, s.gScore,
                                        s.fScore,
                                        Append(s.expanded, Round(s, current)))))

\* while (openSet.length > 0) { ... }
WhileOpen(ns, endId, s) ==
  IF Len(s.openSet) = 0 THEN Exhausted(s)
  ELSE Expand(ns, endId, s, SelectCurrent(s.openSet, s.fScore, endId))

\* The A* search from startId to endId
Search(ns, startId, endId) ==
  WhileOpen(ns, endId,
    SearchState(<<startId>>, NoScores, [NoScores EXCEPT ![startId] = Some(0)],
                [NoScores EXCEPT ![startId] =
                   Some(heuristic(NodesGet(ns, startId).position,
                                  NodesGet(ns, endId).position))],
                <<>>))

RECURSIVE PathNodes_Appends(_, _, _)
\* A reconstruction that pushes each predecessor instead of unshifting it
PathNodes_Appends(cameFrom, current, ids) ==
  IF cameFrom[current] = None THEN ids
  ELSE PathNodes_Appends(cameFrom, cameFrom[current][1], ids \o <<cameFrom[current][1]>>)

RECURSIVE PathNodes(_, _, _)
\* The node ids reconstructPath walks through, ids being those collected so far
PathNodes(cameFrom, current, ids) ==
  IF cameFrom[current] = None THEN ids
  ELSE PathNodes(cameFrom, cameFrom[current][1], <<cameFrom[current][1]>> \o ids)

\* NavMesh.reconstructPath(cameFrom, current): the positions of those nodes
reconstructPath(ns, cameFrom, current) ==
  [i \in DOMAIN PathNodes(cameFrom, current, <<current>>) |->
     NodesGet(ns, PathNodes(cameFrom, current, <<current>>)[i]).position]

\* findPath once both ends resolved to nodes
PathBetween(ns, r) ==
  IF r.reached THEN reconstructPath(ns, r.s.cameFrom, r.current) ELSE <<>>

\* NavMesh.findPath(startPosition, endPosition)
findPath(m, startPosition, endPosition) ==
  IF getClosestNode(m.nodes, startPosition) = None
       \/ getClosestNode(m.nodes, endPosition) = None
    THEN <<>>
  ELSE PathBetween(m.nodes,
         Search(m.nodes, getClosestNode(m.nodes, startPosition)[1],
                getClosestNode(m.nodes, endPosition)[1]))

\* The graph as one value
Mesh == [vertices |-> vertices, nodes |-> nodes]

\* The ids of the nodes whose positions findPath returns
PathNodesBetween(r) ==
  IF r.reached THEN PathNodes(r.s.cameFrom, r.current, <<r.current>>) ELSE <<>>

\* One findPath call: the path it returns, the ids of the nodes on the path, and the
\* rounds of its while loop in order
Searched(m, startPosition, endPosition) ==
  IF getClosestNode(m.nodes, startPosition) = None
       \/ getClosestNode(m.nodes, endPosition) = None
    THEN [path |-> <<>>, ids |-> <<>>, rounds |-> <<>>]
  ELSE LET r == Search(m.nodes, getClosestNode(m.nodes, startPosition)[1],
                       getClosestNode(m.nodes, endPosition)[1])
       IN [path |-> PathBetween(m.nodes, r), ids |-> PathNodesBetween(r),
           rounds |-> r.s.expanded]

\* AISystem.findPath that searches the graph whether or not it was set
aiFindPath_Unguarded(ref, m, start, end) == findPath(m, start, end)

\* AISystem.findPath(start, end); ref is this.navigationMesh, m the graph it refers to
aiFindPath(ref, m, start, end) ==
  IF ref = None THEN <<>> ELSE findPath(m, start, end)

\* What is kept of a findPath call: its arguments, the path it returned and the
\* ids of the nodes the path goes through
Found(op, start, end, points, ids) ==
  [op |-> op, start |-> start, end |-> end, path |-> points, ids |-> ids,
   bidirectional |-> FALSE]
NotSearched == Found("-", <<>>, <<>>, <<>>, <<>>)

NavOp(op) ==
  /\ last' = [op |-> op, a |-> "-", dt |-> 0, status |-> "-"]
  /\ hooks' = <<>>
  /\ calls' = <<>>

\* Most calls of addNode a run makes
MaxVertices == 3

\* navMesh.addNode(id, position)
AddNode(id, position) ==
  /\ Len(vertices) < MaxVertices
  /\ vertices' = addNode(Mesh, id, position).vertices
  /\ nodes' = addNode(Mesh, id, position).nodes
  /\ found' = NotSearched
  /\ NavOp("addNode")
  /\ UNCHANGED <<treeVars, nodeVars, sysVars, navigationMesh, moveVars>>

\* navMesh.connectNodes(fromId, toId, bidirectional)
ConnectNodes(fromId, toId, bidirectional) ==
  /\ nodes' = connectNodes(Mesh, fromId, toId, bidirectional).nodes
  /\ vertices' = connectNodes(Mesh, fromId, toId, bidirectional).vertices
  /\ found' = [Found("connectNodes", fromId, toId, <<>>, <<>>)
                 EXCEPT !.bidirectional = bidirectional]
  /\ NavOp("connectNodes")
  /\ UNCHANGED <<treeVars, nodeVars, sysVars, navigationMesh, moveVars>>

\* navMesh.findPath(startPosition, endPosition)
FindPath(startPosition, endPosition) ==
  /\ found' = LET r == Searched(Mesh, startPosition, endPosition)
               IN Found("findPath", startPosition, endPosition, r.path, r.ids)
                    @@ [rounds |-> r.rounds]
  /\ NavOp("findPath")
  /\ UNCHANGED <<treeVars, nodeVars, sysVars, vertices, nodes, navigationMesh, moveVars>>

\* What is kept of a findPath call that is in its while loop: the end node and the maps
Looping(startPosition, endPosition, endId, s) ==
  Found("while", startPosition, endPosition, <<>>, <<>>) @@ [endId |-> endId, s |-> s]

\* What is kept of a findPath call that has returned from its while loop
Returned(startPosition, endPosition, points, ids, rounds) ==
  Found("findPath", startPosition, endPosition, points, ids) @@ [rounds |-> rounds]

\* The maps findPath enters its while loop with
Opened(ns, startId, endId) ==
  SearchState(<<startId>>, NoScores, [NoScores EXCEPT ![startId] = Some(0)],
              [NoScores EXCEPT ![startId] =
                 Some(heuristic(NodesGet(ns, startId).position,
                                NodesGet(ns, endId).position))],
              <<>>)

\* navMesh.findPath(startPosition, endPosition) up to its while loop
FindPathEnter(startPosition, endPosition) ==
  /\ found.op # "while"
  /\ found' = IF getClosestNode(nodes, startPosition) = None
                    \/ getClosestNode(nodes, endPosition) = None
                THEN Returned(startPosition, endPosition, <<>>, <<>>, <<>>)
                ELSE Looping(startPosition, endPosition,
                             getClosestNode(nodes, endPosition)[1],
                             Opened(nodes, getClosestNode(nodes, startPosition)[1],
                                    getClosestNode(nodes, endPosition)[1]))
  /\ NavOp("findPath")
  /\ UNCHANGED <<treeVars, nodeVars, sysVars, vertices, nodes, navigationMesh, moveVars>>

\* The body of the while loop for the member it selected
WhileBody(f, current) ==
  IF current = f.endId
    THEN Returned(f.start, f.end, reconstructPath(nodes, f.s.cameFrom, current),
                  PathNodes(f.s.cameFrom, current, <<current>>),
                  Append(f.s.expanded, Round(f.s, current)))
    ELSE [f EXCEPT !.s =
            ConnectionsForEach(nodes, NodesGet(nodes, f.endId).position, current,
                               NodesGet(nodes, current).connections, 1,
                               SearchState(Splice(f.s.openSet, current), f.s.cameFrom,
                                           f.s.gScore, f.s.fScore,
                                           Append(f.s.expanded, Round(f.s, current))))]

\* One test of the while condition of the findPath call in progress, and the round
\* or the return that follows it
WhileRound ==
  /\ found.op = "while"
  /\ found' = IF Len(found.s.openSet) = 0
                THEN Returned(found.start, found.end, <<>>, <<>>, found.s.expanded)
                ELSE WhileBody(found, SelectCurrent(found.s.openSet, found.s.fScore,
                                                    found.endId))
  /\ NavOp("findPath")
  /\ UNCHANGED <<treeVars, nodeVars, sysVars, vertices, nodes, navigationMesh, moveVars>>

\* navMesh.getClosestPoint(position)
GetClosestPoint(position) ==
  /\ found' = Found("getClosestPoint", position, <<>>, <<getClosestPoint(Mesh, position)>>,
                    <<>>)
  /\ NavOp("getClosestPoint")
  /\ UNCHANGED <<treeVars, nodeVars, sysVars, vertices, nodes, navigationMesh, moveVars>>

\* navMesh.getRandomPoint(), Math.random() returning random / RandomSteps
GetRandomPoint(random) ==
  /\ found' = Found("getRandomPoint", <<>>, <<>>, <<getRandomPoint(Mesh, random)>>, <<>>)
  /\ NavOp("getRandomPoint")
  /\ UNCHANGED <<treeVars, nodeVars, sysVars, vertices, nodes, navigationMesh, moveVars>>

\* aiSystem.findPath(start, end)
SystemFindPath(start, end) ==
  /\ found' = Found("AISystem.findPath", start, end,
                    aiFindPath(navigationMesh, Mesh, start, end), <<>>)
  /\ NavOp("AISystem.findPath")
  /\ UNCHANGED <<treeVars, nodeVars, sysVars, vertices, nodes, navigationMesh, moveVars>>

\* aiSystem.setNavigationMesh(navigationMesh)
SetNavigationMesh(mesh) ==
  /\ navigationMesh' = mesh
  /\ found' = NotSearched
  /\ NavOp("setNavigationMesh")
  /\ UNCHANGED <<treeVars, nodeVars, sysVars, vertices, nodes, moveVars>>

----------------------------------------------------------------------------
(***************************************************************************)
(* Agent locomotion.  Agents move along the x axis: every position and     *)
(* waypoint has y = z = 0, so the distance is |dx|, the unit direction is  *)
(* (+1, 0, 0) or (-1, 0, 0), and the yaw of a non-zero velocity is +90 or  *)
(* -90 degrees.  Speeds, accelerations and tick lengths are whole numbers. *)
(***************************************************************************)
\* The AgentConfig every agent is created with
Config == [speed |-> 1, turnSpeed |-> 45, acceleration |-> 1, stoppingDistance |-> 1]

Vec(x, y, z) == <<x, y, z>>
Zero == Vec(0, 0, 0)

\* A transform with a position and a rotation
Transform(position, rotation) == [position |-> position, rotation |-> rotation]

\* The fields of one Agent that locomotion reads and writes
AgentState(tr, v, p, index, target, bb) ==
  [transform |-> tr, velocity |-> v, path |-> p, currentPathIndex |-> index,
   currentTarget |-> target, blackboard |-> bb]

AgentOf(a) ==
  AgentState(transform[a], velocity[a], path[a], currentPathIndex[a], currentTarget[a],
             blackboard[a])

\* The keys the behaviours keep on the blackboard, and a blackboard without them
Keys == {"patrolIndex", "chaseTimer"}
EmptyBlackboard == [k \in Keys |-> None]

Abs(x) == IF x < 0 THEN -x ELSE x
Sign(x) == IF x > 0 THEN 1 ELSE IF x < 0 THEN -1 ELSE 0
Min2(x, y) == IF x < y THEN x ELSE y

\* x % m of JavaScript: the remainder takes the sign of x
Remainder(x, m) == IF x >= 0 THEN x % m ELSE -((-x) % m)

\* Math.atan2(vx, vz) * (180 / Math.PI), on the axes
Atan2Degrees(vx, vz) ==
  CASE vz = 0 /\ vx > 0 -> 90
    [] vz = 0 /\ vx < 0 -> -90
    [] vx = 0 /\ vz >= 0 -> 0
    [] vx = 0 /\ vz < 0 -> 180

\* A wrap-around that brings back only the differences above 180
Wrapped_OneSided(diff) == IF diff > 180 THEN diff - 360 ELSE diff

\* The second and third branch of getAngleDifference
Wrapped(diff) == IF diff > 180 THEN diff - 360 ELSE IF diff < -180 THEN diff + 360 ELSE diff

\* Agent.getAngleDifference(a, b)
getAngleDifference(a, b) == Wrapped(Remainder(b - a, 360))

\* The rotation moveTowards leaves for the new velocity
Turned(rotation, v, deltaTime) ==
  IF Abs(v[1]) > 0 \/ Abs(v[3]) > 0
    THEN Vec(rotation[1],
             rotation[2]
               + Min2(Abs(getAngleDifference(rotation[2], Atan2Degrees(v[1], v[3]))),
                      Config.turnSpeed * deltaTime)
                 * Sign(getAngleDifference(rotation[2], Atan2Degrees(v[1], v[3]))),
             rotation[3])
    ELSE rotation

\* The representable number nearest to n / den, counted in spacings: a Number
\* operation yields the exact result rounded to the nearest representable value,
\* the one with the even last digit when two are as near
RoundEven(n, den) ==
  IF 2 * (n % den) < den THEN n \div den
  ELSE IF 2 * (n % den) > den THEN (n \div den) + 1
  ELSE IF (n \div den) % 2 = 0 THEN n \div den
  ELSE (n \div den) + 1

\* A blend that steps to the next representable value when the sum rounds back
Blend_AlwaysMoves(x, desired, acceleration, deltaTime, unit) ==
  IF RoundEven(x * unit * unit + (desired - x) * acceleration * deltaTime, unit * unit) = x
    THEN x + Sign(desired - x)
    ELSE RoundEven(x * unit * unit + (desired - x) * acceleration * deltaTime, unit * unit)

\* x + (desired - x) * acceleration * deltaTime on Numbers that are whole
\* multiples of 1 / unit near x: the products keep their own precision and the
\* sum is rounded to the spacing around x.  With unit = 1 and whole numbers
\* nothing is rounded.
Blend(x, desired, acceleration, deltaTime, unit) ==
  RoundEven(x * unit * unit + (desired - x) * acceleration * deltaTime, unit * unit)

\* this.velocity[i] + (desiredVelocity[i] - this.velocity[i]) * acceleration * deltaTime
Accelerated(v, desired, deltaTime) ==
  [i \in 1..3 |-> Blend(v[i], desired[i], Config.acceleration, deltaTime, 1)]

\* [dx / distance, dy / distance, dz / distance] * speed
DesiredVelocity(from, to) ==
  [i \in 1..3 |-> ((to[i] - from[i]) \div Distance(from, to)) * Config.speed]

\* What one moveTowards or followPath call yields: the agent after it and what it returned
Moved(ag, returned) == [ag |-> ag, returned |-> returned]

\* The rest of moveTowards, given the new velocity
Stepped(ag, v, deltaTime) ==
  Moved([ag EXCEPT
           !.velocity = v,
           !.transform =
             Some(Transform([i \in 1..3 |-> ag.transform[1].position[i] + v[i] * deltaTime],
                            Turned(ag.transform[1].rotation, v, deltaTime)))],
        FALSE)

\* A moveTowards that reports arrival but leaves the velocity as it was
moveTowards_KeepsVelocity(ag, target, deltaTime) ==
  IF ag.transform = None THEN Moved(ag, FALSE)
  ELSE IF Distance(ag.transform[1].position, target) <= Config.stoppingDistance
    THEN Moved(ag, TRUE)
  ELSE Stepped(ag,
               Accelerated(ag.velocity, DesiredVelocity(ag.transform[1].position, target),
                           deltaTime),
               deltaTime)

\* Agent.moveTowards(target, deltaTime)
moveTowards(ag, target, deltaTime) ==
  IF ag.transform = None THEN Moved(ag, FALSE)
  ELSE IF Distance(ag.transform[1].position, target) <= Config.stoppingDistance
    THEN Moved([ag EXCEPT !.velocity = Zero], TRUE)
  ELSE Stepped(ag,
               Accelerated(ag.velocity, DesiredVelocity(ag.transform[1].position, target),
                           deltaTime),
               deltaTime)

\* A followPath that reports the end of the path only on the call after arrival
Arrived_ReportsLater(ag) ==
  IF ag.currentPathIndex + 1 >= Len(ag.path)
    THEN Moved([ag EXCEPT !.path = <<>>, !.currentPathIndex = 0], FALSE)
    ELSE Moved([ag EXCEPT !.currentPathIndex = ag.currentPathIndex + 1], FALSE)

\* A followPath that clears the path at its end and leaves the cursor where it is
Arrived_KeepsCursor(ag) ==
  IF ag.currentPathIndex + 1 >= Len(ag.path)
    THEN Moved([ag EXCEPT !.path = <<>>, !.currentPathIndex = ag.currentPathIndex + 1], TRUE)
    ELSE Moved([ag EXCEPT !.currentPathIndex = ag.currentPathIndex + 1], FALSE)

\* The rest of followPath once moveTowards reported arrival
Arrived(ag) ==
  IF ag.currentPathIndex + 1 >= Len(ag.path)
    THEN Moved([ag EXCEPT !.path = <<>>, !.currentPathIndex = 0], TRUE)
    ELSE Moved([ag EXCEPT !.currentPathIndex = ag.currentPathIndex + 1], FALSE)

\* The rest of followPath after its moveTowards call
AfterMove(m) == IF m.returned THEN Arrived(m.ag) ELSE Moved(m.ag, FALSE)

\* Agent.followPath(deltaTime); path[i] of the code is ag.path[i + 1]
followPath(ag, deltaTime) ==
  IF Len(ag.path) = 0 THEN Moved(ag, TRUE)
  ELSE AfterMove(moveTowards(ag, ag.path[ag.currentPathIndex + 1], deltaTime))

SetAgent(a, ag) ==
  /\ transform' = [transform EXCEPT ![a] = ag.transform]
  /\ velocity' = [velocity EXCEPT ![a] = ag.velocity]
  /\ path' = [path EXCEPT ![a] = ag.path]
  /\ currentPathIndex' = [currentPathIndex EXCEPT ![a] = ag.currentPathIndex]
  /\ currentTarget' = [currentTarget EXCEPT ![a] = ag.currentTarget]
  /\ blackboard' = [blackboard EXCEPT ![a] = ag.blackboard]

\* The record of a moveTowards call among the calls of an operation
MoveCall(a, target, returned) ==
  [op |-> "moveTowards", a |-> a, target |-> target, returned |-> returned]

\* The farthest from the origin an agent is followed
MaxCoordinate == 6

InRange(ag) ==
  ag.transform # None => Abs(ag.transform[1].position[1]) <= MaxCoordinate

\* agent.setPath(path)
SetPath(a, p) ==
  /\ path' = [path EXCEPT ![a] = p]
  /\ currentPathIndex' = [currentPathIndex EXCEPT ![a] = 0]
  /\ last' = [op |-> "setPath", a |-> a, dt |-> 0, status |-> "-"]
  /\ hooks' = <<>>
  /\ calls' = <<>>
  /\ UNCHANGED <<treeVars, nodeVars, sysVars, navVars, transform, velocity, currentTarget,
               blackboard>>

\* agent.followPath(deltaTime)
FollowPath(a, deltaTime) ==
  /\ InRange(followPath(AgentOf(a), deltaTime).ag)
  /\ SetAgent(a, followPath(AgentOf(a), deltaTime).ag)
  /\ last' = [op |-> "followPath", a |-> a, dt |-> deltaTime,
              status |-> IF followPath(AgentOf(a), deltaTime).returned
                           THEN "true" ELSE "false"]
  /\ hooks' = <<>>
  /\ calls' = IF Len(path[a]) = 0 THEN <<>>
              ELSE <<MoveCall(a, path[a][currentPathIndex[a] + 1],
                              moveTowards(AgentOf(a), path[a][currentPathIndex[a] + 1],
                                          deltaTime).returned)>>
  /\ UNCHANGED <<treeVars, nodeVars, sysVars, navVars>>

\* agent.moveTowards(target, deltaTime), called directly; calls keeps its target
MoveTowards(a, target, deltaTime) ==
  /\ InRange(moveTowards(AgentOf(a), target, deltaTime).ag)
  /\ SetAgent(a, moveTowards(AgentOf(a), target, deltaTime).ag)
  /\ last' = [op |-> "moveTowards", a |-> a, dt |-> deltaTime,
              status |-> IF moveTowards(AgentOf(a), target, deltaTime).returned
                           THEN "true" ELSE "false"]
  /\ hooks' = <<>>
  /\ calls' = <<MoveCall(a, target, moveTowards(AgentOf(a), target, deltaTime).returned)>>
  /\ UNCHANGED <<treeVars, nodeVars, sysVars, navVars>>

\* How many representable Numbers there are per whole unit where velocities are
\* followed below the whole numbers
Unit == 8

\* The fastest, in whole units, a velocity is followed
MaxVelocity == 3

\* The record of one velocity update: the x components before and after, the
\* desired one, and acceleration and deltaTime, all counted in 1 / Unit
Blended(from, desired, acceleration, deltaTime, to) ==
  [op |-> "blend", from |-> from, desired |-> desired, acceleration |-> acceleration,
   deltaTime |-> deltaTime, to |-> to]

\* The velocity update of a moveTowards call that does not report arrival, for
\* an agent heading along the x axis; velocity[a] is counted in 1 / Unit
Accelerate(a, desired, acceleration, deltaTime) ==
  /\ Abs(Blend(velocity[a][1], desired, acceleration, deltaTime, Unit)) <= MaxVelocity * Unit
  /\ velocity' = [velocity EXCEPT ![a] =
                    Vec(Blend(velocity[a][1], desired, acceleration, deltaTime, Unit), 0, 0)]
  /\ last' = [op |-> "accelerate", a |-> a, dt |-> deltaTime, status |-> "false"]
  /\ hooks' = <<>>
  /\ calls' = <<Blended(velocity[a][1], desired, acceleration, deltaTime,
                        Blend(velocity[a][1], desired, acceleration, deltaTime, Unit))>>
  /\ UNCHANGED <<treeVars, nodeVars, sysVars, navVars, transform, path, currentPathIndex,
               currentTarget, blackboard>>

----------------------------------------------------------------------------
(***************************************************************************)
(* The behaviours the AISystem factories build.  Each is an Action whose   *)
(* closures work on the agent they are given; the node maps st carry, for  *)
(* them, the agents (st.agent), the AISystem's navigationMesh reference    *)
(* and the graph behind it (st.mesh).                                      *)
(***************************************************************************)
\* The points a target selector may return, and what it returns: a point or undefined
TargetPoints == {<<3, 0, 0>>, <<-2, 0, 0>>}
Targets == {None} \cup {Some(p) : p \in TargetPoints}

\* What the closures of a tree with factory behaviours return on one execute:
\* as above, and the target selector's result and Math.random()'s
FactoryOracles(r) ==
  [act : [{n \in Descendants(r) : Type(n) = "Action"} -> BehaviorStatus],
   cond : [{n \in Descendants(r) : Type(n) = "Condition"} -> BOOLEAN],
   target : IF \E n \in Descendants(r) : Type(n) \in {"Chase", "Flee"} THEN Targets
            ELSE {None},
   random : IF \E n \in Descendants(r) : Type(n) = "Wander" THEN Randoms ELSE {0}]

\* The arguments the factories are called with
PatrolPoints(n) == <<Vec(3, 0, 0), Vec(-2, 0, 0)>>
Loop(n) == n = 26
UpdateRate(n) == 2
MinDistance(n) == 2
FleeDistance(n) == 3

\* What a behaviour's action yields: the agent after it, the status it returned
\* and the paths it planned
Ran(ag, status, notes) == [ag |-> ag, status |-> status, notes |-> notes]

\* A re-plan of the chase: the target chosen and the path assigned
Replan(target, assigned) ==
  [k |-> "replan", status |-> "-", target |-> target, assigned |-> assigned]

\* Agent.setPath(path)
setPath(ag, p) == [ag EXCEPT !.path = p, !.currentPathIndex = 0]

\* agent.setBlackboardValue(key, value)
setBlackboardValue(ag, key, value) == [ag EXCEPT !.blackboard[key] = Some(value)]

\* if (!agent.hasBlackboardValue(key)) agent.setBlackboardValue(key, 0)
EnsureBlackboardValue(ag, key) ==
  IF ag.blackboard[key] = None THEN setBlackboardValue(ag, key, 0) ELSE ag

\* A patrol that goes on to the next point and leaves patrolIndex where it was
PatrolCompleted_KeepsIndex(n, ag, index) ==
  IF index + 1 < Len(PatrolPoints(n))
    THEN Ran(setPath(ag, <<PatrolPoints(n)[index + 2]>>), RUNNING, <<>>)
  ELSE IF Loop(n)
    THEN Ran(setPath(setBlackboardValue(ag, "patrolIndex", 0), <<PatrolPoints(n)[1]>>),
             RUNNING, <<>>)
  ELSE Ran(setBlackboardValue(ag, "patrolIndex", index + 1), SUCCESS, <<>>)

\* The patrol's action after followPath returned true; points[i] is PatrolPoints(n)[i + 1]
PatrolCompleted(n, ag, index) ==
  IF index + 1 < Len(PatrolPoints(n))
    THEN Ran(setPath(setBlackboardValue(ag, "patrolIndex", index + 1),
                     <<PatrolPoints(n)[index + 2]>>), RUNNING, <<>>)
  ELSE IF Loop(n)
    THEN Ran(setPath(setBlackboardValue(ag, "patrolIndex", 0), <<PatrolPoints(n)[1]>>),
             RUNNING, <<>>)
  ELSE Ran(setBlackboardValue(ag, "patrolIndex", index + 1), SUCCESS, <<>>)

\* The patrol's action once followPath has been called
PatrolFollowed(n, m, index) ==
  IF m.returned THEN PatrolCompleted(n, m.ag, index) ELSE Ran(m.ag, RUNNING, <<>>)

\* The patrol's action from the choice of currentTarget on
PatrolFollow(n, ag, index, dt) ==
  PatrolFollowed(n,
    followPath(IF Len(ag.path) = 0 THEN setPath(ag, <<PatrolPoints(n)[index + 1]>>) ELSE ag,
               dt),
    index)

\* The patrol's action from the read of patrolIndex on
PatrolAt(n, ag, index, dt) ==
  IF index >= Len(PatrolPoints(n))
    THEN IF Loop(n)
           THEN PatrolFollow(n, setPath(setBlackboardValue(ag, "patrolIndex", 0),
                                        <<PatrolPoints(n)[1]>>), index, dt)
           ELSE Ran(ag, SUCCESS, <<>>)
    ELSE PatrolFollow(n, ag, index, dt)

\* The action of createPatrolBehavior
PatrolAction(n, ag, dt) ==
  PatrolAt(n, EnsureBlackboardValue(ag, "patrolIndex"),
           EnsureBlackboardValue(ag, "patrolIndex").blackboard["patrolIndex"][1], dt)

\* The onEnter and onExit of createPatrolBehavior
PatrolOnEnter(n, ag) ==
  IF Len(PatrolPoints(n)) > 0
    THEN setPath(setBlackboardValue(ag, "patrolIndex", 0), <<PatrolPoints(n)[1]>>)
    ELSE setBlackboardValue(ag, "patrolIndex", 0)
PatrolOnExit(n, ag) == setPath(ag, <<>>)

\* The path the chase assigns for the target, given the path the graph found
Assigned(route, target) == IF Len(route) > 0 THEN route ELSE <<target>>

\* A chase that takes whatever the graph found, an empty path too
Planned_NoFallback(ag, target, ref, m) ==
  IF ref # None /\ ag.transform # None
    THEN aiFindPath(ref, m, ag.transform[1].position, target)
    ELSE <<target>>

\* The path the chase sets on a re-plan
Planned(ag, target, ref, m) ==
  IF ref # None /\ ag.transform # None
    THEN Assigned(aiFindPath(ref, m, ag.transform[1].position, target), target)
    ELSE <<target>>

\* The end of the chase's action: followPath, then the status by the target
ChaseFollowed(m, notes) ==
  Ran(m.ag, IF m.ag.currentTarget # None THEN RUNNING ELSE SUCCESS, notes)

\* The chase's re-plan with the path it planned
ChaseReplanned(ag, target, assigned, dt) ==
  ChaseFollowed(followPath(setPath([ag EXCEPT !.currentTarget = Some(target)], assigned), dt),
                <<Replan(target, assigned)>>)

\* The chase's action once the timer has been advanced to timer
ChaseAt(n, ag, timer, dt, target, ref, m) ==
  IF timer >= UpdateRate(n)
    THEN IF target = None
           THEN Ran(setBlackboardValue(ag, "chaseTimer", 0), FAILURE, <<>>)
           ELSE ChaseReplanned(setBlackboardValue(ag, "chaseTimer", 0), target[1],
                               Planned(ag, target[1], ref, m), dt)
    ELSE ChaseFollowed(followPath(setBlackboardValue(ag, "chaseTimer", timer), dt), <<>>)

\* The action of createChaseBehavior; target is what targetSelector(agent) returns
ChaseAction(n, ag, dt, target, ref, m) ==
  ChaseAt(n, EnsureBlackboardValue(ag, "chaseTimer"),
          EnsureBlackboardValue(ag, "chaseTimer").blackboard["chaseTimer"][1] + dt,
          dt, target, ref, m)

\* The onEnter and onExit of createChaseBehavior
ChaseOnEnter(n, ag) == setBlackboardValue(ag, "chaseTimer", 0)
ChaseOnExit(n, ag) ==
  [setPath(ag, <<>>) EXCEPT !.currentTarget = None, !.blackboard["chaseTimer"] = None]

\* agent.getGameObject().transform?.position || [0, 0, 0]
PositionOrOrigin(ag) == IF ag.transform = None THEN Zero ELSE ag.transform[1].position

\* The point the wander picks; without a graph Math.random() chooses the angle,
\* 0 or pi, and the distance is minDistance
WanderTarget(n, ag, random, ref, m) ==
  IF ref # None THEN getRandomPoint(m, random)
  ELSE Vec(PositionOrOrigin(ag)[1]
             + (IF 2 * random < RandomSteps THEN 1 ELSE -1) * MinDistance(n),
           PositionOrOrigin(ag)[2], PositionOrOrigin(ag)[3])

\* The wander's action once followPath has been called
WanderFollowed(n, m, random, ref, mesh) ==
  IF m.returned
    THEN Ran(setPath(m.ag, <<WanderTarget(n, m.ag, random, ref, mesh)>>), RUNNING, <<>>)
    ELSE Ran(m.ag, RUNNING, <<>>)

\* The action of createWanderBehavior
WanderAction(n, ag, dt, random, ref, m) ==
  IF Len(ag.path) = 0
    THEN Ran(setPath(ag, <<WanderTarget(n, ag, random, ref, m)>>), RUNNING, <<>>)
    ELSE WanderFollowed(n, followPath(ag, dt), random, ref, m)

\* currentPosition + direction away from the target * fleeDistance
FleeTarget(n, position, target) ==
  [i \in 1..3 |-> position[i]
                    + ((position[i] - target[i]) \div Distance(position, target))
                      * FleeDistance(n)]

\* The flee's action for a target closer than fleeDistance
FleeFrom(n, ag, dt, fleeTarget, ref, m) ==
  Ran(followPath(setPath(ag, <<IF ref # None THEN getClosestPoint(m, fleeTarget)
                               ELSE fleeTarget>>), dt).ag,
      RUNNING, <<>>)

\* A flee that goes on fleeing at exactly fleeDistance
FleeAction_StrictlyFarther(n, ag, dt, target, ref, m) ==
  IF target = None THEN Ran(ag, SUCCESS, <<>>)
  ELSE IF ag.transform = None THEN Ran(ag, FAILURE, <<>>)
  ELSE IF Distance(ag.transform[1].position, target[1]) > FleeDistance(n)
    THEN Ran(ag, SUCCESS, <<>>)
  ELSE FleeFrom(n, ag, dt, FleeTarget(n, ag.transform[1].position, target[1]), ref, m)

\* The action of createFleeFromBehavior; target is what targetSelector(agent) returns
FleeAction(n, ag, dt, target, ref, m) ==
  IF target = None THEN Ran(ag, SUCCESS, <<>>)
  ELSE IF ag.transform = None THEN Ran(ag, FAILURE, <<>>)
  ELSE IF Distance(ag.transform[1].position, target[1]) >= FleeDistance(n)
    THEN Ran(ag, SUCCESS, <<>>)
  ELSE FleeFrom(n, ag, dt, FleeTarget(n, ag.transform[1].position, target[1]), ref, m)

\* Whether the factory gives the Action an onEnter and an onExit
FactoryHasHooks(n) == Type(n) \in {"Patrol", "Chase"}

\* this.onEnter(agent) of a behaviour
FactoryOnEnter(n, ag) ==
  CASE Type(n) = "Patrol" -> PatrolOnEnter(n, ag)
    [] Type(n) = "Chase" -> ChaseOnEnter(n, ag)
    [] OTHER -> ag

\* this.onExit(agent) of a behaviour
FactoryOnExit(n, ag) ==
  CASE Type(n) = "Patrol" -> PatrolOnExit(n, ag)
    [] Type(n) = "Chase" -> ChaseOnExit(n, ag)
    [] OTHER -> ag

\* this.action(agent, deltaTime) of a behaviour
FactoryAction(n, ag, dt, o, st) ==
  CASE Type(n) = "Patrol" -> PatrolAction(n, ag, dt)
    [] Type(n) = "Chase" -> ChaseAction(n, ag, dt, o.target, st.navigationMesh, st.mesh)
    [] Type(n) = "Wander" -> WanderAction(n, ag, dt, o.random, st.navigationMesh, st.mesh)
    [] Type(n) = "Flee" -> FleeAction(n, ag, dt, o.target, st.navigationMesh, st.mesh)

\* The hooks and plans of one execute of a behaviour, in order
FactoryHooks(n, a, entered, r) ==
  (IF entered THEN <<Hook("onEnter", n, a, "-")>> ELSE <<>>)
    \o <<Hook("action", n, a, r.status)>>
    \o [i \in DOMAIN r.notes |-> [r.notes[i] EXCEPT !.status = "-"] @@ [n |-> n, a |-> a]]
    \o (IF r.status # RUNNING /\ FactoryHasHooks(n) THEN <<Hook("onExit", n, a, "-")>>
        ELSE <<>>)

\* A behaviour whose onExit tears down every agent's state, not only the executing agent's
FactoryOnStatus_ExitsEveryAgent(n, a, st, entered, r) ==
  Result([st EXCEPT !.isRunning[n][a] = Some(r.status = RUNNING),
                    !.agent = [b \in AgentIds |->
                                 LET ag == IF b = a THEN r.ag ELSE st.agent[b]
                                 IN IF r.status # RUNNING THEN FactoryOnExit(n, ag) ELSE ag]],
         r.status, FactoryHooks(n, a, entered, r), <<>>, <<>>)

\* The rest of Action.execute of a behaviour once its action has returned r
FactoryOnStatus(n, a, st, entered, r) ==
  Result([st EXCEPT !.isRunning[n][a] = Some(r.status = RUNNING),
                    !.agent[a] = IF r.status # RUNNING THEN FactoryOnExit(n, r.ag)
                                 ELSE r.ag],
         r.status, FactoryHooks(n, a, entered, r), <<>>, <<>>)

\* Action.execute of a behaviour, given whether onEnter is called
FactoryEntered(n, a, dt, o, st, entered) ==
  FactoryOnStatus(n, a, st, entered,
    FactoryAction(n, IF entered THEN FactoryOnEnter(n, st.agent[a]) ELSE st.agent[a],
                  dt, o, st))

\* Action.execute, for the Action a factory built
BehaviorExecute(n, a, dt, o, st) ==
  FactoryEntered(n, a, dt, o, st, ~WasRunning(st, n, a) /\ FactoryHasHooks(n))

\* Action.reset, for the Action a factory built
BehaviorReset(n, a, st) ==
  Cleared([st EXCEPT !.isRunning[n][a] = None,
                     !.agent[a] = IF WasRunning(st, n, a) THEN FactoryOnExit(n, st.agent[a])
                                  ELSE st.agent[a]],
          IF WasRunning(st, n, a) /\ FactoryHasHooks(n)
            THEN <<Hook("onExit", n, a, "-")>> ELSE <<>>,
          <<>>)


----------------------------------------------------------------------------
RECURSIVE execute(_, _, _, _, _)
RECURSIVE reset(_, _, _)
RECURSIVE ResetChildren(_, _, _, _)
RECURSIVE ParallelForEach(_, _, _, _, _, _)

\* child.execute(agent, deltaTime) and child.reset(agent), as a node calls them
ExecuteChild(child, a, dt, o, st) == execute(child, a, dt, o, st)
ResetChild(child, a, st) == reset(child, a, st)


\* children.forEach(child => child.reset(agent)), from child i on
ResetChildren(n, i, a, acc) ==
  IF i > Len(Children(n)) THEN acc
  ELSE ResetChildren(n, i + 1, a, Then(acc, ResetChild(Children(n)[i], a, acc.st)))

\* The index kept as one scalar of the node instead of one entry per agent
SetIndex_OneScalar(st, n, a, i) ==
  [st EXCEPT !.currentIndex[n] = [b \in AgentIds |-> Some(i)]]

SetIndex(st, n, a, i) == [st EXCEPT !.currentIndex[n][a] = Some(i)]
DeleteIndex(st, n, a) == [st EXCEPT !.currentIndex[n][a] = None]

\* if (!this.currentIndex.has(agentId)) this.currentIndex.set(agentId, 0)
EnsureIndex(st, n, a) == IF HasKey(st.currentIndex, n, a) THEN st ELSE SetIndex(st, n, a, 0)

\* Sequence.execute that does not go back to the first child after a Failure
SequenceOnChild_KeepsIndexOnFailure(n, a, index, child, r) ==
  IF r.status = RUNNING
    THEN Result(r.st, RUNNING, r.hooks, r.calls, <<<<child, r.status>>>>)
  ELSE IF r.status = FAILURE
    THEN Result(r.st, FAILURE, r.hooks, r.calls, <<<<child, r.status>>>>)
  ELSE IF index + 1 >= Len(Children(n))
    THEN Result(SetIndex(r.st, n, a, 0), SUCCESS, r.hooks, r.calls, <<<<child, r.status>>>>)
  ELSE Result(SetIndex(r.st, n, a, index + 1), RUNNING, r.hooks, r.calls, <<<<child, r.status>>>>)

\* Sequence.execute that moves on to the next child while the current one is Running
SequenceOnChild_MovesOnWhileRunning(n, a, index, child, r) ==
  IF r.status = FAILURE
    THEN Result(SetIndex(r.st, n, a, 0), FAILURE, r.hooks, r.calls, <<<<child, r.status>>>>)
  ELSE IF index + 1 >= Len(Children(n))
    THEN Result(SetIndex(r.st, n, a, 0), r.status, r.hooks, r.calls, <<<<child, r.status>>>>)
  ELSE Result(SetIndex(r.st, n, a, index + 1), RUNNING, r.hooks, r.calls, <<<<child, r.status>>>>)

\* The rest of Sequence.execute once children[index] has returned r
\* A Sequence that leaves its index past the last child when it succeeds
SequenceOnChild_StaysPastEnd(n, a, index, child, r) ==
  IF r.status = RUNNING
    THEN Result(r.st, RUNNING, r.hooks, r.calls, <<<<child, r.status>>>>)
  ELSE IF r.status = FAILURE
    THEN Result(SetIndex(r.st, n, a, 0), FAILURE, r.hooks, r.calls, <<<<child, r.status>>>>)
  ELSE IF index + 1 >= Len(Children(n))
    THEN Result(SetIndex(r.st, n, a, index + 1), SUCCESS, r.hooks, r.calls,
                <<<<child, r.status>>>>)
  ELSE Result(SetIndex(r.st, n, a, index + 1), RUNNING, r.hooks, r.calls, <<<<child, r.status>>>>)

SequenceOnChild(n, a, index, child, r) ==
  IF r.status = RUNNING
    THEN Result(r.st, RUNNING, r.hooks, r.calls, <<<<child, r.status>>>>)
  ELSE IF r.status = FAILURE
    THEN Result(SetIndex(r.st, n, a, 0), FAILURE, r.hooks, r.calls, <<<<child, r.status>>>>)
  ELSE IF index + 1 >= Len(Children(n))
    THEN Result(SetIndex(r.st, n, a, 0), SUCCESS, r.hooks, r.calls, <<<<child, r.status>>>>)
  ELSE Result(SetIndex(r.st, n, a, index + 1), RUNNING, r.hooks, r.calls, <<<<child, r.status>>>>)

\* Sequence.execute from the read of the stored index on
SequenceAt(n, a, dt, o, st, index) ==
  IF index >= Len(Children(n)) THEN Result(st, SUCCESS, <<>>, <<>>, <<>>)
  ELSE SequenceOnChild(n, a, index, Children(n)[index + 1],
                       ExecuteChild(Children(n)[index + 1], a, dt, o, st))

SequenceExecute(n, a, dt, o, st) ==
  SequenceAt(n, a, dt, o, EnsureIndex(st, n, a), EnsureIndex(st, n, a).currentIndex[n][a][1])

\* Selector.execute that does not go back to the first child after a Success
SelectorOnChild_KeepsIndexOnSuccess(n, a, index, child, r) ==
  IF r.status = RUNNING
    THEN Result(r.st, RUNNING, r.hooks, r.calls, <<<<child, r.status>>>>)
  ELSE IF r.status = SUCCESS
    THEN Result(r.st, SUCCESS, r.hooks, r.calls, <<<<child, r.status>>>>)
  ELSE IF index + 1 >= Len(Children(n))
    THEN Result(SetIndex(r.st, n, a, 0), FAILURE, r.hooks, r.calls, <<<<child, r.status>>>>)
  ELSE Result(SetIndex(r.st, n, a, index + 1), RUNNING, r.hooks, r.calls, <<<<child, r.status>>>>)

\* The rest of Selector.execute once children[index] has returned r
SelectorOnChild(n, a, index, child, r) ==
  IF r.status = RUNNING
    THEN Result(r.st, RUNNING, r.hooks, r.calls, <<<<child, r.status>>>>)
  ELSE IF r.status = SUCCESS
    THEN Result(SetIndex(r.st, n, a, 0), SUCCESS, r.hooks, r.calls, <<<<child, r.status>>>>)
  ELSE IF index + 1 >= Len(Children(n))
    THEN Result(SetIndex(r.st, n, a, 0), FAILURE, r.hooks, r.calls, <<<<child, r.status>>>>)
  ELSE Result(SetIndex(r.st, n, a, index + 1), RUNNING, r.hooks, r.calls, <<<<child, r.status>>>>)

\* Selector.execute from the read of the stored index on
SelectorAt(n, a, dt, o, st, index) ==
  IF index >= Len(Children(n)) THEN Result(st, FAILURE, <<>>, <<>>, <<>>)
  ELSE SelectorOnChild(n, a, index, Children(n)[index + 1],
                       ExecuteChild(Children(n)[index + 1], a, dt, o, st))

SelectorExecute(n, a, dt, o, st) ==
  SelectorAt(n, a, dt, o, EnsureIndex(st, n, a), EnsureIndex(st, n, a).currentIndex[n][a][1])

\* Sequence.reset and Selector.reset
CompositeReset(n, a, st) ==
  ResetChildren(n, 1, a, Cleared(DeleteIndex(st, n, a), <<>>, <<>>))

\* An Inverter that hands its child's status through
Inverted_PassThrough(status) == status

\* The status Inverter.execute returns for its child's status
Inverted(status) ==
  IF status = RUNNING THEN RUNNING ELSE IF status = SUCCESS THEN FAILURE ELSE SUCCESS

InverterOnChild(child, r) ==
  Result(r.st, Inverted(r.status), r.hooks, r.calls, <<<<child, r.status>>>>)

InverterExecute(n, a, dt, o, st) ==
  InverterOnChild(Children(n)[1], ExecuteChild(Children(n)[1], a, dt, o, st))

\* A decorator's reset that does not reach its child
DecoratorReset_StopsHere(n, a, st) == Cleared(st, <<>>, <<>>)

\* Inverter.reset and RepeatUntilFailure.reset
DecoratorReset(n, a, st) == ResetChildren(n, 1, a, Cleared(st, <<>>, <<>>))

ConditionExecute(n, a, dt, o, st) ==
  Result(st, IF o.cond[n] THEN SUCCESS ELSE FAILURE, <<>>, <<>>, <<>>)

ConditionReset(n, a, st) == Cleared(st, <<>>, <<>>)

\* Whether the Action was constructed with the optional hook.
HasOnEnter(n) == TRUE
HasOnExit(n) == TRUE


\* Action.execute that calls onEnter on every tick
ActionEnter_EveryTick(n, a, wasRunning) ==
  IF HasOnEnter(n) THEN <<Hook("onEnter", n, a, "-")>> ELSE <<>>

\* if (!wasRunning && this.onEnter) this.onEnter(agent)
ActionEnter(n, a, wasRunning) ==
  IF ~wasRunning /\ HasOnEnter(n) THEN <<Hook("onEnter", n, a, "-")>> ELSE <<>>

\* if (this.onExit) this.onExit(agent)
ActionExit(n, a) == IF HasOnExit(n) THEN <<Hook("onExit", n, a, "-")>> ELSE <<>>

\* The rest of Action.execute once this.action(agent, deltaTime) has returned status
ActionOnStatus(n, a, st, entered, status) ==
  IF status # RUNNING
    THEN Result([st EXCEPT !.isRunning[n][a] = Some(FALSE)], status,
                entered \o <<Hook("action", n, a, status)>> \o ActionExit(n, a), <<>>, <<>>)
    ELSE Result([st EXCEPT !.isRunning[n][a] = Some(TRUE)], status,
                entered \o <<Hook("action", n, a, status)>>, <<>>, <<>>)

ActionExecute(n, a, dt, o, st) ==
  ActionOnStatus(n, a, st, ActionEnter(n, a, WasRunning(st, n, a)), o.act[n])

ActionReset(n, a, st) ==
  Cleared([st EXCEPT !.isRunning[n][a] = None],
          IF WasRunning(st, n, a) THEN ActionExit(n, a) ELSE <<>>,
          <<>>)

\* Parallel's constructor: requiredSuccesses < 0 ? children.length : requiredSuccesses
ParallelConstructor(n, arg) == IF arg < 0 THEN Len(Children(n)) ELSE arg

Count(seq, s) == Cardinality({i \in DOMAIN seq : seq[i] = s})

\* statuses[index] = child.execute(agent, deltaTime); acc = [st, hooks, calls, kids, vec],
\* vec being the agent's status array, which the loop writes in place
ParallelRecord(i, child, acc, r) ==
  [st |-> r.st, hooks |-> acc.hooks \o r.hooks, calls |-> acc.calls \o r.calls,
   kids |-> Append(acc.kids, <<child, r.status>>), vec |-> [acc.vec EXCEPT ![i] = r.status]]

\* Parallel.execute that executes every child on every tick
ParallelChild_Always(n, i, a, dt, o, acc) ==
  ParallelRecord(i, Children(n)[i], acc, ExecuteChild(Children(n)[i], a, dt, o, acc.st))

\* One round of this.children.forEach((child, index) => ...)
ParallelChild(n, i, a, dt, o, acc) ==
  IF acc.vec[i] = RUNNING
    THEN ParallelRecord(i, Children(n)[i], acc, ExecuteChild(Children(n)[i], a, dt, o, acc.st))
    ELSE acc

ParallelForEach(n, i, a, dt, o, acc) ==
  IF i > Len(Children(n)) THEN acc
  ELSE ParallelForEach(n, i + 1, a, dt, o, ParallelChild(n, i, a, dt, o, acc))

\* Parallel.execute that fails one failure too early
ParallelOutcome_FailsEarly(successCount, failureCount, childCount, required) ==
  IF successCount >= required THEN SUCCESS
  ELSE IF failureCount >= childCount - required THEN FAILURE
  ELSE RUNNING

\* The status Parallel.execute returns for the counts of one tick
ParallelOutcome(successCount, failureCount, childCount, required) ==
  IF successCount >= required THEN SUCCESS
  ELSE IF failureCount > childCount - required THEN FAILURE
  ELSE RUNNING

\* A Parallel that resets its children when it resolves
ParallelFinish_ResetsChildren(n, a, acc, out) ==
  IF out = RUNNING
    THEN Result([acc.st EXCEPT !.statuses[n][a] = Some(acc.vec)], out,
                acc.hooks, acc.calls, acc.kids)
    ELSE LET z == ResetChildren(n, 1, a,
                    Cleared([acc.st EXCEPT !.statuses[n][a] = None], <<>>, <<>>))
         IN Result(z.st, out, acc.hooks \o z.hooks, acc.calls, acc.kids)

\* The end of Parallel.execute: the agent's array is deleted on a terminal status
ParallelFinish(n, a, acc, out) ==
  Result(IF out = RUNNING THEN [acc.st EXCEPT !.statuses[n][a] = Some(acc.vec)]
                          ELSE [acc.st EXCEPT !.statuses[n][a] = None],
         out, acc.hooks, acc.calls, acc.kids)

ParallelCounted(n, a, acc) ==
  ParallelFinish(n, a, acc,
    ParallelOutcome(Count(acc.vec, SUCCESS), Count(acc.vec, FAILURE),
                    Len(Children(n)), requiredSuccesses[n]))

\* The agent's status array at the start of Parallel.execute
ParallelStatuses(n, a, st) ==
  IF HasKey(st.statuses, n, a) THEN st.statuses[n][a][1]
  ELSE [i \in DOMAIN Children(n) |-> RUNNING]

ParallelExecute(n, a, dt, o, st) ==
  ParallelCounted(n, a,
    ParallelForEach(n, 1, a, dt, o,
      [st |-> st, hooks |-> <<>>, calls |-> <<>>, kids |-> <<>>,
       vec |-> ParallelStatuses(n, a, st)]))

ParallelReset(n, a, st) ==
  ResetChildren(n, 1, a, Cleared([st EXCEPT !.statuses[n][a] = None], <<>>, <<>>))

\* this.child.reset(agent) after the child returned SUCCESS; z is what the reset did
RepeatAfterReset(child, r, z) ==
  Result(z.st, RUNNING, r.hooks \o z.hooks, r.calls \o z.calls, <<<<child, r.status>>>>)

\* A RepeatUntilFailure that loops without resetting its child
RepeatOnChild_NoReset(child, a, r) ==
  Result(r.st, IF r.status = FAILURE THEN FAILURE ELSE RUNNING, r.hooks, r.calls,
         <<<<child, r.status>>>>)

RepeatOnChild(child, a, r) ==
  IF r.status = FAILURE
    THEN Result(r.st, FAILURE, r.hooks, r.calls, <<<<child, r.status>>>>)
  ELSE IF r.status = SUCCESS
    THEN RepeatAfterReset(child, r, ResetChild(child, a, r.st))
  ELSE Result(r.st, RUNNING, r.hooks, r.calls, <<<<child, r.status>>>>)

RepeatUntilFailureExecute(n, a, dt, o, st) ==
  RepeatOnChild(Children(n)[1], a, ExecuteChild(Children(n)[1], a, dt, o, st))

\* A Wait that succeeds only once the elapsed time exceeds the duration
WaitOnElapsed_Strict(n, a, st, elapsed) ==
  IF elapsed > Duration(n)
    THEN Result([st EXCEPT !.timeElapsed[n][a] = None], SUCCESS, <<>>, <<>>, <<>>)
    ELSE Result([st EXCEPT !.timeElapsed[n][a] = Some(elapsed)], RUNNING, <<>>, <<>>, <<>>)

\* Wait.execute that keeps the elapsed time when the wait is over
WaitOnElapsed_KeepsTime(n, a, st, elapsed) ==
  Result([st EXCEPT !.timeElapsed[n][a] = Some(elapsed)],
         IF elapsed >= Duration(n) THEN SUCCESS ELSE RUNNING, <<>>, <<>>, <<>>)

\* The rest of Wait.execute for the new elapsed time
WaitOnElapsed(n, a, st, elapsed) ==
  IF elapsed >= Duration(n)
    THEN Result([st EXCEPT !.timeElapsed[n][a] = None], SUCCESS, <<>>, <<>>, <<>>)
    ELSE Result([st EXCEPT !.timeElapsed[n][a] = Some(elapsed)], RUNNING, <<>>, <<>>, <<>>)

WaitExecute(n, a, dt, o, st) ==
  WaitOnElapsed(n, a, st,
    (IF HasKey(st.timeElapsed, n, a) THEN st.timeElapsed[n][a][1] ELSE 0) + dt)

\* Wait.reset that leaves the accumulated time in place
WaitReset_KeepsTime(n, a, st) == Cleared(st, <<>>, <<>>)

WaitReset(n, a, st) == Cleared([st EXCEPT !.timeElapsed[n][a] = None], <<>>, <<>>)

\* The node's execute method, by its class
NodeExecute(n, a, dt, o, st) ==
  CASE Type(n) = "Sequence" -> SequenceExecute(n, a, dt, o, st)
    [] Type(n) = "Selector" -> SelectorExecute(n, a, dt, o, st)
    [] Type(n) = "Inverter" -> InverterExecute(n, a, dt, o, st)
    [] Type(n) = "Condition" -> ConditionExecute(n, a, dt, o, st)
    [] Type(n) = "Action" -> ActionExecute(n, a, dt, o, st)
    [] Type(n) = "Parallel" -> ParallelExecute(n, a, dt, o, st)
    [] Type(n) = "RepeatUntilFailure" -> RepeatUntilFailureExecute(n, a, dt, o, st)
    [] Type(n) = "Wait" -> WaitExecute(n, a, dt, o, st)
    [] Type(n) \in {"Patrol", "Chase", "Wander", "Flee"} -> BehaviorExecute(n, a, dt, o, st)

\* The node's reset method, by its class
NodeReset(n, a, st) ==
  CASE Type(n) \in {"Sequence", "Selector"} -> CompositeReset(n, a, st)
    [] Type(n) \in {"Inverter", "RepeatUntilFailure"} -> DecoratorReset(n, a, st)
    [] Type(n) = "Condition" -> ConditionReset(n, a, st)
    [] Type(n) = "Action" -> ActionReset(n, a, st)
    [] Type(n) = "Parallel" -> ParallelReset(n, a, st)
    [] Type(n) = "Wait" -> WaitReset(n, a, st)
    [] Type(n) \in {"Patrol", "Chase", "Wander", "Flee"} -> BehaviorReset(n, a, st)

\* A call of execute, recorded on return with the node's own entry before and after
Executed(n, a, st, r) ==
  Result(r.st, r.status, r.hooks,
         Append(r.calls,
                Call("execute", n, a, Own(st, n, a), Own(r.st, n, a), r.kids, r.status)),
         <<>>)

\* A call of reset, recorded on return
WasReset(n, a, st, r) ==
  Cleared(r.st, r.hooks,
          Append(r.calls, Call("reset", n, a, Own(st, n, a), Own(r.st, n, a), <<>>, "-")))

\* BehaviorNode.execute(agent, deltaTime)
execute(n, a, dt, o, st) == Executed(n, a, st, NodeExecute(n, a, dt, o, st))

\* BehaviorNode.reset(agent)
reset(n, a, st) == WasReset(n, a, st, NodeReset(n, a, st))

----------------------------------------------------------------------------
Init ==
  /\ root \in Roots \cup FactoryRoots \cup CompositeRoots
  /\ ctorArg \in {f \in [ParallelNodes -> UNION {RequiredArgs(n) : n \in ParallelNodes}] :
                    \A n \in ParallelNodes :
                      /\ f[n] \in RequiredArgs(n)
                      /\ (n \notin Descendants(root) => f[n] = -1 \/ RequiredArgs(n) = {f[n]})}
  /\ requiredSuccesses = [n \in ParallelNodes |-> ParallelConstructor(n, ctorArg[n])]
  /\ currentIndex = EmptyMaps
  /\ statuses = EmptyMaps
  /\ isRunning = EmptyMaps
  /\ timeElapsed = EmptyMaps
  /\ agents = <<>>
  /\ behaviorTree = [a \in AgentIds |-> None]
  /\ isInitialized = FALSE
  /\ last = [op |-> "new", a |-> "-", dt |-> 0, status |-> "-"]
  /\ hooks = <<>>
  /\ calls = <<>>
  /\ navigationMesh = None
  /\ found = NotSearched
  /\ velocity = [a \in AgentIds |-> Zero]
  /\ path = [a \in AgentIds |-> <<>>]
  /\ currentPathIndex = [a \in AgentIds |-> 0]
  /\ currentTarget = [a \in AgentIds |-> None]
  /\ blackboard = [a \in AgentIds |-> EmptyBlackboard]

SetNodeState(st) ==
  /\ currentIndex' = st.currentIndex
  /\ statuses' = st.statuses
  /\ isRunning' = st.isRunning
  /\ timeElapsed' = st.timeElapsed
  /\ transform' = [a \in AgentIds |-> st.agent[a].transform]
  /\ velocity' = [a \in AgentIds |-> st.agent[a].velocity]
  /\ path' = [a \in AgentIds |-> st.agent[a].path]
  /\ currentPathIndex' = [a \in AgentIds |-> st.agent[a].currentPathIndex]
  /\ currentTarget' = [a \in AgentIds |-> st.agent[a].currentTarget]
  /\ blackboard' = [a \in AgentIds |-> st.agent[a].blackboard]

\* BehaviorTree.execute(agent, deltaTime), called on the shared tree for the agent with id a
TreeExecute(a, dt, o) ==
  LET r == execute(root, a, dt, o, NodeState)
  IN /\ \A b \in AgentIds : InRange(r.st.agent[b])
     /\ SetNodeState(r.st)
     /\ last' = [op |-> "execute", a |-> a, dt |-> dt, status |-> r.status]
     /\ hooks' = r.hooks
     /\ calls' = r.calls
     /\ UNCHANGED <<treeVars, sysVars, navVars>>

\* BehaviorTree.reset(agent)
TreeReset(a) ==
  LET r == reset(root, a, NodeState)
  IN /\ SetNodeState(r.st)
     /\ last' = [op |-> "reset", a |-> a, dt |-> 0, status |-> "-"]
     /\ hooks' = r.hooks
     /\ calls' = r.calls
     /\ UNCHANGED <<treeVars, sysVars, navVars>>

\* AISystem.initialize(navigationMesh): does nothing once initialized
Initialize(mesh) ==
  /\ isInitialized' = TRUE
  /\ navigationMesh' = IF isInitialized THEN navigationMesh ELSE mesh
  /\ last' = [op |-> "initialize", a |-> "-", dt |-> 0, status |-> "-"]
  /\ hooks' = <<>>
  /\ calls' = <<>>
  /\ UNCHANGED <<treeVars, nodeVars, agents, behaviorTree, vertices, nodes, found, moveVars>>

InRegistry(id) == \E i \in DOMAIN agents : agents[i] = id

\* Map.set(id, agent): a new key goes last, an existing key keeps its place.
MapSet(keys, id) ==
  IF \E i \in DOMAIN keys : keys[i] = id THEN keys ELSE Append(keys, id)

\* A removal by splice(indexOf(id), 1), which drops the last key when id is unknown
MapDelete_Splice(keys, id) ==
  IF \E i \in DOMAIN keys : keys[i] = id THEN SelectSeq(keys, LAMBDA k : k # id)
  ELSE SubSeq(keys, 1, Len(keys) - 1)

\* Map.delete(id)
MapDelete(keys, id) == SelectSeq(keys, LAMBDA k : k # id)

\* A createAgent that also forgets what the nodes keep under the id
CreateAgent_ForgetsKeyedState(id) ==
  /\ agents' = MapSet(agents, id)
  /\ behaviorTree' = [behaviorTree EXCEPT ![id] = None]
  /\ velocity' = [velocity EXCEPT ![id] = Zero]
  /\ path' = [path EXCEPT ![id] = <<>>]
  /\ currentPathIndex' = [currentPathIndex EXCEPT ![id] = 0]
  /\ currentTarget' = [currentTarget EXCEPT ![id] = None]
  /\ blackboard' = [blackboard EXCEPT ![id] = EmptyBlackboard]
  /\ currentIndex' = [n \in NodeIds |-> [currentIndex[n] EXCEPT ![id] = None]]
  /\ statuses' = [n \in NodeIds |-> [statuses[n] EXCEPT ![id] = None]]
  /\ isRunning' = [n \in NodeIds |-> [isRunning[n] EXCEPT ![id] = None]]
  /\ timeElapsed' = [n \in NodeIds |-> [timeElapsed[n] EXCEPT ![id] = None]]
  /\ last' = [op |-> "createAgent", a |-> id, dt |-> 0, status |-> "-"]
  /\ hooks' = <<>>
  /\ calls' = <<>>
  /\ UNCHANGED <<treeVars, isInitialized, navVars, transform>>

\* AISystem.createAgent(id, gameObject, config): a new Agent, with no behaviour tree yet
CreateAgent(id) ==
  /\ agents' = MapSet(agents, id)
  /\ behaviorTree' = [behaviorTree EXCEPT ![id] = None]
  /\ velocity' = [velocity EXCEPT ![id] = Zero]
  /\ path' = [path EXCEPT ![id] = <<>>]
  /\ currentPathIndex' = [currentPathIndex EXCEPT ![id] = 0]
  /\ currentTarget' = [currentTarget EXCEPT ![id] = None]
  /\ blackboard' = [blackboard EXCEPT ![id] = EmptyBlackboard]
  /\ last' = [op |-> "createAgent", a |-> id, dt |-> 0, status |-> "-"]
  /\ hooks' = <<>>
  /\ calls' = <<>>
  /\ UNCHANGED <<treeVars, nodeVars, isInitialized, navVars, transform>>

\* Agent.setBehaviorTree(tree) on the registered agent, with the shared tree
SetBehaviorTree(id) ==
  /\ InRegistry(id)
  /\ behaviorTree' = [behaviorTree EXCEPT ![id] = Some(root)]
  /\ last' = [op |-> "setBehaviorTree", a |-> id, dt |-> 0, status |-> "-"]
  /\ hooks' = <<>>
  /\ calls' = <<>>
  /\ UNCHANGED <<treeVars, nodeVars, agents, isInitialized, navVars, moveVars>>

\* AISystem.removeAgent(id)
RemoveAgent(id) ==
  /\ agents' = MapDelete(agents, id)
  /\ behaviorTree' = [behaviorTree EXCEPT ![id] = None]
  /\ last' = [op |-> "removeAgent", a |-> id, dt |-> 0,
              status |-> IF InRegistry(id) THEN "removed" ELSE "unknown"]
  /\ hooks' = <<>>
  /\ calls' = <<>>
  /\ UNCHANGED <<treeVars, nodeVars, isInitialized, navVars, moveVars>>

\* Agent.update(deltaTime): executes the agent's tree, if it has one; acc = [st, hooks, calls]
AgentUpdate(id, dt, o, acc) ==
  IF behaviorTree[id] = None THEN acc
  ELSE Then(acc, execute(behaviorTree[id][1], id, dt, o, acc.st))

RECURSIVE AgentsForEach(_, _, _, _)

\* An update that stops after the first registered agent
AgentsForEach_FirstOnly(i, dt, os, acc) ==
  IF i > Len(agents) \/ i > 1 THEN acc
  ELSE AgentUpdate(agents[i], dt, os[agents[i]], acc)

\* this.agents.forEach(agent => agent.update(deltaTime)), from the i-th registered agent on
AgentsForEach(i, dt, os, acc) ==
  IF i > Len(agents) THEN acc
  ELSE AgentsForEach(i + 1, dt, os, AgentUpdate(agents[i], dt, os[agents[i]], acc))

\* The body of AISystem.update(deltaTime)
UpdateResult(dt, os) ==
  IF ~isInitialized THEN Cleared(NodeState, <<>>, <<>>)
  ELSE AgentsForEach(1, dt, os, Cleared(NodeState, <<>>, <<>>))

\* AISystem.update(deltaTime); os gives, per registered agent, what the leaves' closures return
Update(dt, os) ==
  LET r == UpdateResult(dt, os)
  IN /\ \A b \in AgentIds : InRange(r.st.agent[b])
     /\ SetNodeState(r.st)
     /\ last' = [op |-> "update", a |-> "-", dt |-> dt, status |-> "-"]
     /\ hooks' = r.hooks
     /\ calls' = r.calls
     /\ UNCHANGED <<treeVars, sysVars, navVars>>

Registered == {agents[i] : i \in DOMAIN agents}

NextTree ==
  \/ \E a \in AgentIds, dt \in DeltaTimes, o \in Oracles(root) : TreeExecute(a, dt, o)
  \/ \E a \in AgentIds : TreeReset(a)

Next ==
  \/ Initialize(None)
  \/ \E id \in AgentIds : CreateAgent(id)
  \/ \E id \in AgentIds : SetBehaviorTree(id)
  \/ \E id \in AgentIds : RemoveAgent(id)
  \/ \E dt \in DeltaTimes, os \in [Registered -> Oracles(root)] : Update(dt, os)
  \/ \E a \in AgentIds : TreeReset(a)

\* The trees the whole system is run on, and the trees the node engine alone is run on.
SystemRoots == {18, 23}
EngineRoots == Roots \ {23}

\* No navigation graph has been built
NoGraph == vertices = <<>> /\ nodes = <<>>

\* Every agent's game object has a transform, at the origin
AtOrigin == transform = [a \in AgentIds |-> Some(Transform(Zero, Zero))]

InitSystem == Init /\ NoGraph /\ AtOrigin /\ root \in SystemRoots
InitTree == Init /\ NoGraph /\ AtOrigin /\ root \in EngineRoots

\* The AI system as the game drives it: the registry, the per-frame update, and
\* cancellation by BehaviorTree.reset.
Spec == InitSystem /\ [][Next]_vars

\* The node engine alone: BehaviorTree.execute and BehaviorTree.reset called directly.
SpecTree == InitTree /\ [][NextTree]_vars

\* The trees of Sequences and Selectors, nested and with no children, and a Parallel
\* with no children
InitComposites == Init /\ NoGraph /\ AtOrigin /\ root \in {1, 5, 18} \cup CompositeRoots

\* The node engine on those trees.
SpecComposites == InitComposites /\ [][NextTree]_vars

\* The ids and positions world setup builds the navigation graph from, and the
\* positions paths are asked between.
BuildIds == {1, 2, 3}
BuildPoints == {<<0, 0, 0>>, <<3, 0, 0>>, <<3, 4, 0>>}

\* The positions world setup puts the node with the given id at
BuildPositions(id) ==
  CASE id = 1 -> {<<0, 0, 0>>}
    [] id = 2 -> {<<3, 0, 0>>}
    [] OTHER -> {<<3, 4, 0>>, <<3, 0, 0>>}

NextNav ==
  \/ \E id \in BuildIds : \E position \in BuildPositions(id) : AddNode(id, position)
  \/ \E fromId, toId \in BuildIds, bidirectional \in BOOLEAN :
       fromId # toId /\ ConnectNodes(fromId, toId, bidirectional)
  \/ \E startPosition, endPosition \in BuildPoints : FindPath(startPosition, endPosition)

InitNav == Init /\ NoGraph /\ AtOrigin /\ root = 23

\* The positions the closest point is asked for: the nodes' and three off the nodes,
\* each at a whole distance from every node
QueryPoints == BuildPoints \cup {<<0, 4, 0>>, <<6, 0, 0>>, <<3, -4, 0>>}

NextPoints ==
  \/ \E id \in BuildIds : \E position \in BuildPositions(id) : AddNode(id, position)
  \/ \E position \in QueryPoints : GetClosestPoint(position)
  \/ \E random \in Randoms : GetRandomPoint(random)

\* The navigation graph's nodes, registered by addNode and queried for the closest
\* and for a random point.
SpecPoints == InitNav /\ [][NextPoints]_vars

\* The navigation graph alone: built by addNode and connectNodes, queried by findPath.
SpecNav == InitNav /\ [][NextNav]_vars

\* Four positions with a node each, three in a row and one off the row, all at
\* whole distances from each other (6, 9, 15 along the row; 8, 10, 17 to the
\* fourth), and the directed edges world setup may join them by, in the order it
\* makes the connectNodes calls.
Corners == <<<<0, 0, 0>>, <<6, 0, 0>>, <<15, 0, 0>>, <<0, 8, 0>>>>
RoutePoints == {Corners[i] : i \in DOMAIN Corners}
RouteEdges ==
  << <<4, 2>>, <<4, 1>>, <<4, 3>>, <<2, 1>>, <<1, 3>>,
     <<1, 2>>, <<2, 3>>, <<3, 2>>, <<2, 4>> >>

RECURSIVE WithNodes(_, _)
\* addNode(i, Corners[i]) for i = 1 .. count
WithNodes(m, count) ==
  IF count = 0 THEN m ELSE addNode(WithNodes(m, count - 1), count, Corners[count])

RECURSIVE WithEdges(_, _, _)
\* connectNodes(from, to, false) for the first count edges of RouteEdges that are chosen
WithEdges(m, chosen, count) ==
  IF count = 0 THEN m
  ELSE IF count \in chosen
    THEN connectNodes(WithEdges(m, chosen, count - 1),
                      RouteEdges[count][1], RouteEdges[count][2], FALSE)
    ELSE WithEdges(m, chosen, count - 1)

\* The graph world setup built from the chosen edges
Built(chosen) == WithEdges(WithNodes(EmptyMesh, Len(Corners)), chosen, Len(RouteEdges))

HasGraph(m) == vertices = m.vertices /\ nodes = m.nodes

InitRoutes ==
  /\ Init
  /\ AtOrigin
  /\ root = 23
  /\ \E chosen \in SUBSET DOMAIN RouteEdges : HasGraph(Built(chosen))

NextRoutes ==
  \E startPosition, endPosition \in RoutePoints : FindPath(startPosition, endPosition)

\* Path queries on the graphs over the four positions.
SpecRoutes == InitRoutes /\ [][NextRoutes]_vars

\* World setups on the x axis, as the calls they make: a node is (id, x) and an edge
\* (from, to), one way.  In the first the nodes stay where they are put; in the second
\* node 3 is put elsewhere after 2 was joined to it; in the third nodes 3 and 4 both are.
Put(id, x) == [op |-> "addNode", id |-> id, position |-> <<x, 0, 0>>]
Join(fromId, toId) == [op |-> "connectNodes", fromId |-> fromId, toId |-> toId]
Setups ==
  { << Put(1, 0), Put(2, 1), Put(3, 2), Put(4, 4),
       Join(1, 3), Join(1, 2), Join(2, 4), Join(3, 4) >>,
    << Put(1, 0), Put(2, 1), Put(3, 2), Put(4, 10), Join(2, 3),
       Put(3, 5), Join(1, 3), Join(1, 2), Join(2, 4), Join(3, 4) >>,
    << Put(1, 0), Put(2, 1), Put(3, 2), Put(4, 3), Join(2, 3), Join(2, 4),
       Put(3, 5), Put(4, 10), Join(1, 3), Join(1, 2) >> }

RECURSIVE SetUp(_, _)
\* The graph after the first count calls of a setup
SetUp(setup, count) ==
  IF count = 0 THEN EmptyMesh
  ELSE LET m == SetUp(setup, count - 1)
       IN IF setup[count].op = "addNode"
            THEN addNode(m, setup[count].id, setup[count].position)
            ELSE connectNodes(m, setup[count].fromId, setup[count].toId, FALSE)

\* The graphs of every stage of the setups
SetupGraphs == UNION {{SetUp(setup, count) : count \in 0..Len(setup)} : setup \in Setups}

\* The positions paths are asked between on those graphs
SetupPoints == {<<x, 0, 0>> : x \in {0, 1, 2, 4, 5, 10}}

InitFrontier ==
  /\ Init
  /\ AtOrigin
  /\ root = 23
  /\ \E m \in SetupGraphs : HasGraph(m)

NextFrontier ==
  \E startPosition, endPosition \in SetupPoints : FindPath(startPosition, endPosition)

\* Path queries at every stage of three world setups.
SpecFrontier == InitFrontier /\ [][NextFrontier]_vars

\* World setups with cycles: in the first nodes 1 and 2 lie on one point and are joined
\* both ways, and node 4 cannot be reached; in the second nodes 3 and 4 are put
\* elsewhere after 2 was joined to them, and edges lead back from them.
CyclicSetups ==
  { << Put(1, 0), Put(2, 0), Put(3, 2), Put(4, 5),
       Join(1, 2), Join(2, 1), Join(2, 3), Join(3, 1) >>,
    << Put(1, 0), Put(2, 1), Put(3, 2), Put(4, 3), Join(2, 3), Join(2, 4),
       Put(3, 5), Put(4, 10), Join(1, 3), Join(1, 2), Join(3, 1), Join(3, 2),
       Join(4, 3) >> }

CyclicGraphs == {SetUp(setup, Len(setup)) : setup \in CyclicSetups}

InitLoop ==
  /\ Init
  /\ AtOrigin
  /\ root = 23
  /\ \E m \in CyclicGraphs : HasGraph(m)

NextLoop ==
  \/ \E startPosition, endPosition \in SetupPoints :
       FindPathEnter(startPosition, endPosition)
  \/ WhileRound

\* Path queries on graphs with cycles, the while loop of findPath taken a round at a
\* time; a call that has entered the loop goes on with it.
SpecLoop == InitLoop /\ [][NextLoop]_vars /\ WF_vars(WhileRound)

\* The graph of the path service: no node, two unconnected nodes, or four nodes
\* with the chain 4 -> 2 -> 1 -> 3.
ServiceGraphs == {EmptyMesh, WithNodes(EmptyMesh, 2), Built({1, 4, 5})}

InitService == Init /\ AtOrigin /\ root = 23 /\ \E m \in ServiceGraphs : HasGraph(m)

NextService ==
  \/ \E mesh \in {None, Some("navMesh")} : Initialize(mesh)
  \/ SetNavigationMesh(Some("navMesh"))
  \/ \E start, end \in RoutePoints : SystemFindPath(start, end)
  \/ \E id \in AgentIds : CreateAgent(id)
  \/ \E id \in AgentIds : RemoveAgent(id)

\* The AI system as a path service: the graph reference, the registry and findPath.
SpecService == InitService /\ [][NextService]_vars

\* The waypoints paths are made of, and the paths agents are given
Waypoints == {Vec(0, 0, 0), Vec(3, 0, 0), Vec(-2, 0, 0)}
Paths == {<<>>} \cup {<<w>> : w \in Waypoints}
           \cup {<<v, w>> : v, w \in Waypoints}

\* The agents that are moved
Movers == {"a1"}

\* The yaws the moved agents start with: none, more than a turn, a negative one
StartYaws == {0, 400, -300}

InitMove ==
  /\ Init
  /\ NoGraph
  /\ root = 23
  /\ transform \in [AgentIds -> {None} \cup {Some(Transform(Zero, Vec(0, yaw, 0))) :
                                                yaw \in StartYaws}]
  /\ \A a \in AgentIds \ Movers : transform[a] = Some(Transform(Zero, Zero))

NextMove ==
  \/ \E a \in Movers, p \in Paths : SetPath(a, p)
  \/ \E a \in Movers, deltaTime \in DeltaTimes : FollowPath(a, deltaTime)
  \/ \E a \in Movers, target \in Waypoints, deltaTime \in DeltaTimes :
       MoveTowards(a, target, deltaTime)

\* One agent given paths and made to follow them or to move towards a point.
SpecMove == InitMove /\ [][NextMove]_vars

\* The graphs behaviours plan on, all along the x axis: none, three nodes without
\* connections, and the same with nodes 1 and 2 connected both ways
LineNodes == addNode(addNode(addNode(EmptyMesh, 1, Vec(0, 0, 0)), 2, Vec(3, 0, 0)),
                     3, Vec(-2, 0, 0))
LineGraphs == {EmptyMesh, LineNodes, connectNodes(LineNodes, 1, 2, TRUE)}

\* World setup for behaviours: a graph, not yet given to the AISystem, and
\* whether the moved agents' game objects have a transform
InitWorld ==
  /\ Init
  /\ \E m \in LineGraphs : HasGraph(m)
  /\ transform \in [AgentIds -> {None, Some(Transform(Zero, Zero))}]
  /\ \A a \in AgentIds \ Movers : transform[a] = Some(Transform(Zero, Zero))

InitChase == InitWorld /\ root = 28

NextChase ==
  \/ \E a \in Movers, dt \in DeltaTimes, o \in FactoryOracles(root) :
       o.target # None /\ TreeExecute(a, dt, o)
  \/ \E a \in Movers : TreeReset(a)
  \/ SetNavigationMesh(Some("navMesh"))

\* One agent ticked with the chase behaviour, its target selector always
\* returning a position.
SpecChase == InitChase /\ [][NextChase]_vars

\* The trees that are one behaviour alone: a patrol that ends, a wander, a flee
BehaviorRoots == {27, 29, 30}

InitBehaviors == InitWorld /\ root \in BehaviorRoots

\* A flee is not asked to flee from the very point the agent stands on
Apart(a, o) ==
  Type(root) = "Flee" /\ o.target # None /\ transform[a] # None
    => o.target[1] # transform[a][1].position

NextBehaviors ==
  \/ \E a \in Movers, dt \in DeltaTimes, o \in FactoryOracles(root) :
       Apart(a, o) /\ TreeExecute(a, dt, o)
  \/ \E a \in Movers : TreeReset(a)
  \/ SetNavigationMesh(Some("navMesh"))

\* One agent ticked with a single behaviour, and cancelled by BehaviorTree.reset.
SpecBehaviors == InitBehaviors /\ [][NextBehaviors]_vars

PatrolRoots == {26, 27}

InitPatrol == Init /\ NoGraph /\ AtOrigin /\ root \in PatrolRoots

NextPatrol ==
  \/ \E a \in Movers, dt \in DeltaTimes, o \in FactoryOracles(root) : TreeExecute(a, dt, o)
  \/ \E a \in Movers : TreeReset(a)

\* One agent ticked with a patrol that loops or with one that ends.
SpecPatrol == InitPatrol /\ [][NextPatrol]_vars

\* No graph, and of the two game objects only the moved agents' has a transform
InitShared ==
  /\ Init
  /\ NoGraph
  /\ root = 31
  /\ transform = [a \in AgentIds |-> IF a \in Movers THEN Some(Transform(Zero, Zero))
                                     ELSE None]

NextShared ==
  \/ Initialize(None)
  \/ \E id \in AgentIds : CreateAgent(id)
  \/ \E id \in AgentIds : SetBehaviorTree(id)
  \/ \E os \in [Registered -> FactoryOracles(root)] : Update(MaxDt, os)

\* Two agents sharing one tree of behaviours (chase, or else patrol), ticked by
\* the AISystem.
SpecShared == InitShared /\ [][NextShared]_vars

\* Desired velocities (unit direction times speed 1 or 2, either way along x),
\* accelerations (1/4, 1/2, 1, 2) and tick lengths (1/2, 1), in 1 / Unit
DesiredSpeeds == {Unit, -Unit, 2 * Unit}
Accelerations == {2, 4, Unit, 2 * Unit}
TickLengths == {4, Unit}

InitBlend == Init /\ NoGraph /\ AtOrigin /\ root = 23

NextBlend ==
  \E a \in Movers, desired \in DesiredSpeeds, acceleration \in Accelerations,
     deltaTime \in TickLengths : Accelerate(a, desired, acceleration, deltaTime)

\* The velocity of one agent from rest, under any succession of desired
\* velocities, accelerations and tick lengths.
SpecBlend == InitBlend /\ [][NextBlend]_vars

----------------------------------------------------------------------------
(***************************************************************************)
(* Tree 1 (a Sequence) and tree 2 (a Selector) ticked side by side for the *)
(* same agent, tree 2's children returning the Success/Failure swap of     *)
(* what tree 1's children return.                                          *)
(***************************************************************************)
Swap(status) ==
  IF status = SUCCESS THEN FAILURE ELSE IF status = FAILURE THEN SUCCESS ELSE status

\* Tree 2's node for each node of tree 1: Inverter(Wait) is the swap of Wait.
Mirror == (1 :> 5) @@ (2 :> 6) @@ (3 :> 7) @@ (4 :> 9)

SwappedOracle(o) ==
  [act |-> (6 :> Swap(o.act[2])) @@ (9 :> Swap(o.act[4])), cond |-> <<>>]

DualExecute(a, dt, o) ==
  LET r == Then(execute(1, a, dt, o, NodeState),
                execute(5, a, dt, SwappedOracle(o), execute(1, a, dt, o, NodeState).st))
  IN /\ SetNodeState(r.st)
     /\ last' = [op |-> "execute", a |-> a, dt |-> dt, status |-> "-"]
     /\ hooks' = r.hooks
     /\ calls' = r.calls
     /\ UNCHANGED <<treeVars, sysVars, navVars>>

DualReset(a) ==
  LET r == Then(reset(1, a, NodeState), reset(5, a, reset(1, a, NodeState).st))
  IN /\ SetNodeState(r.st)
     /\ last' = [op |-> "reset", a |-> a, dt |-> 0, status |-> "-"]
     /\ hooks' = r.hooks
     /\ calls' = r.calls
     /\ UNCHANGED <<treeVars, sysVars, navVars>>

NextDual ==
  \/ \E a \in AgentIds, dt \in DeltaTimes, o \in Oracles(1) : DualExecute(a, dt, o)
  \/ \E a \in AgentIds : DualReset(a)

InitDual == Init /\ NoGraph /\ AtOrigin /\ root = 1

SpecDual == InitDual /\ [][NextDual]_vars
----------------------------------------------------------------------------
(***************************************************************************)
(* Properties.  The calls and hooks of the last operation are read from    *)
(* `calls` and `hooks`.                                                    *)
(***************************************************************************)
ActionNodes == {n \in NodeIds : Type(n) = "Action"}

\* Every keyed entry the nodes hold for the agent.
AgentEntries(st, a) ==
  [n \in NodeIds |->
    <<st.currentIndex[n][a], st.statuses[n][a], st.isRunning[n][a], st.timeElapsed[n][a]>>]

NoEntries == [n \in NodeIds |-> <<None, None, None, None>>]

ExecuteCalls == {k \in DOMAIN calls : calls[k].op = "execute"}
ResetCalls == {k \in DOMAIN calls : calls[k].op = "reset"}

\* The children of c's node that were executed for c's agent in the last operation.
ExecutedChildren(c) ==
  {calls[k].n : k \in {j \in ExecuteCalls : calls[j].a = c.a}}
    \cap {Children(c.n)[i] : i \in DOMAIN Children(c.n)}

SameForAgent(x, y, a) ==
  /\ x.status = y.status
  /\ x.hooks = y.hooks
  /\ x.calls = y.calls
  /\ AgentEntries(x.st, a) = AgentEntries(y.st, a)

\* C1: right after reset(agent) on the tree, an execute for that agent returns the
\* same status, makes the same hook and node calls and leaves the same keyed entries
\* as an execute on a tree no agent has ever been ticked on, whatever the leaves return.
C1_ResetThenExecuteIsFirstEver ==
  last.op = "reset" =>
    \A dt \in DeltaTimes, o \in Oracles(root) :
      SameForAgent(execute(root, last.a, dt, o, NodeState),
                   execute(root, last.a, dt, o, EmptyNodeState), last.a)

\* C1's case: the reset erased a Sequence index past 0 and an accumulated Wait time.
C1_Witness ==
  /\ last.op = "reset"
  /\ \E k \in ResetCalls : Type(calls[k].n) = "Sequence" /\ calls[k].pre = Some(1)
  /\ \E k \in ResetCalls : Type(calls[k].n) = "Wait" /\ calls[k].pre = Some(1)

\* C2: an execute or a reset for one agent leaves every keyed entry of every other
\* agent unchanged.
C2_OtherAgentsUntouched ==
  [][\A b \in AgentIds :
       b # last'.a =>
         /\ \A n \in NodeIds :
              /\ currentIndex'[n][b] = currentIndex[n][b]
              /\ statuses'[n][b] = statuses[n][b]
              /\ isRunning'[n][b] = isRunning[n][b]
              /\ timeElapsed'[n][b] = timeElapsed[n][b]]_vars

\* C2's case: an agent was ticked with effect while the other agent holds an index
\* past 0, an active Action or an accumulated Wait time.
C2_Witness ==
  /\ last.op = "execute"
  /\ \E k \in ExecuteCalls : calls[k].pre # calls[k].post
  /\ \E b \in AgentIds \ {last.a} :
       \E n \in NodeIds :
         \/ currentIndex[n][b] = Some(1)
         \/ isRunning[n][b] = Some(TRUE)
         \/ timeElapsed[n][b] = Some(1)

\* The index a Sequence or Selector call started from.
StartIndex(c) == IF c.pre = None THEN 0 ELSE c.pre[1]

\* C3: a Sequence with stored index i executes children[i] and no other child;
\* Running gives Running with index i, Failure gives Failure with index 0, Success
\* gives Success with index 0 on the last child and Running with index i+1 before it.
C3_SequenceStep ==
  \A k \in ExecuteCalls :
    LET c == calls[k]
        i == StartIndex(c)
        count == Len(Children(c.n))
    IN (Type(c.n) = "Sequence" /\ count > 0) =>
         /\ i < count
         /\ ExecutedChildren(c) = {Children(c.n)[i + 1]}
         /\ Len(c.kids) = 1
         /\ c.kids[1][1] = Children(c.n)[i + 1]
         /\ c.kids[1][2] = RUNNING => c.status = RUNNING /\ c.post = Some(i)
         /\ c.kids[1][2] = FAILURE => c.status = FAILURE /\ c.post = Some(0)
         /\ (c.kids[1][2] = SUCCESS /\ i + 1 = count) =>
              c.status = SUCCESS /\ c.post = Some(0)
         /\ (c.kids[1][2] = SUCCESS /\ i + 1 < count) =>
              c.status = RUNNING /\ c.post = Some(i + 1)

\* C3's case: a Sequence of three children at its last child, which succeeds.
C3_Witness ==
  \E k \in ExecuteCalls :
    /\ Type(calls[k].n) = "Sequence"
    /\ calls[k].pre = Some(2)
    /\ calls[k].kids = <<<<Children(calls[k].n)[3], SUCCESS>>>>
    /\ calls[k].status = SUCCESS

\* The call of the last operation that executed node n.
CallOf(n) == calls[CHOOSE k \in ExecuteCalls : calls[k].n = n]

\* C4: ticked side by side on swapped child results, the Selector executes the
\* mirror image of the child the Sequence executes, returns the swap of the
\* Sequence's status and stores the same index, after every tick and every reset.
C4_SelectorIsDualOfSequence ==
  /\ \A a \in AgentIds : currentIndex[5][a] = currentIndex[1][a]
  /\ last.op = "execute" =>
       /\ CallOf(5).status = Swap(CallOf(1).status)
       /\ CallOf(5).pre = CallOf(1).pre
       /\ CallOf(5).post = CallOf(1).post
       /\ Len(CallOf(5).kids) = 1
       /\ Len(CallOf(1).kids) = 1
       /\ CallOf(5).kids[1][1] = Mirror[CallOf(1).kids[1][1]]
       /\ CallOf(5).kids[1][2] = Swap(CallOf(1).kids[1][2])

\* C4's case: the Sequence fails at its last child, so the Selector succeeds at its
\* last child, both going back to index 0.
C4_Witness ==
  /\ last.op = "execute"
  /\ CallOf(1).pre = Some(2)
  /\ CallOf(1).status = FAILURE
  /\ CallOf(5).status = SUCCESS
  /\ CallOf(5).post = Some(0)

\* The status array a Parallel call started from, and the one it ended with: a
\* child recorded Running takes the status its execute returned.
StatusesBefore(c) ==
  IF c.pre = None THEN [i \in DOMAIN Children(c.n) |-> RUNNING] ELSE c.pre[1]

ReturnedBy(c, child) == c.kids[CHOOSE j \in DOMAIN c.kids : c.kids[j][1] = child][2]

StatusesAfter(c) ==
  [i \in DOMAIN Children(c.n) |->
    IF StatusesBefore(c)[i] = RUNNING /\ \E j \in DOMAIN c.kids : c.kids[j][1] = Children(c.n)[i]
      THEN ReturnedBy(c, Children(c.n)[i])
      ELSE StatusesBefore(c)[i]]

\* The k of Parallel(children, k): the child count when no k was given.
GivenRequired(n) == IF ctorArg[n] = -1 THEN Len(Children(n)) ELSE ctorArg[n]

\* C5: Parallel returns Success iff the children recorded Success in this activation
\* number at least k, Failure iff those recorded Failure number more than n - k, and
\* Running otherwise; the two conditions never hold together; k is n when not given.
C5_ParallelOutcome ==
  \A j \in ExecuteCalls :
    LET c == calls[j]
        successes == Count(StatusesAfter(c), SUCCESS)
        failures == Count(StatusesAfter(c), FAILURE)
        n == Len(Children(c.n))
        k == GivenRequired(c.n)
    IN Type(c.n) = "Parallel" =>
         /\ c.status = SUCCESS <=> successes >= k
         /\ c.status = FAILURE <=> failures > n - k
         /\ c.status = RUNNING <=> ~(successes >= k) /\ ~(failures > n - k)
         /\ ~(successes >= k /\ failures > n - k)

\* C5's case: a Parallel built without k, one child recorded Success on an earlier
\* tick, fails on the tick its other child fails.
C5_Witness ==
  \E j \in ExecuteCalls :
    /\ Type(calls[j].n) = "Parallel"
    /\ ctorArg[calls[j].n] = -1
    /\ calls[j].pre = Some(<<SUCCESS, RUNNING>>)
    /\ calls[j].status = FAILURE

\* C6: a Parallel tick executes exactly the children recorded Running (all of them
\* when the agent has no status array), in order; the others keep their status; a
\* terminal status removes the array and a Running one stores it.
C6_ParallelActivation ==
  \A j \in ExecuteCalls :
    LET c == calls[j]
        running == {i \in DOMAIN Children(c.n) : StatusesBefore(c)[i] = RUNNING}
    IN Type(c.n) = "Parallel" =>
         /\ ExecutedChildren(c) = {Children(c.n)[i] : i \in running}
         /\ [i \in DOMAIN c.kids |-> c.kids[i][1]]
              = SelectSeq(Children(c.n), LAMBDA ch : ch \in {Children(c.n)[i] : i \in running})
         /\ c.status \in {SUCCESS, FAILURE} => c.post = None
         /\ c.status = RUNNING =>
              /\ c.post # None
              /\ \A i \in DOMAIN Children(c.n) :
                   c.post[1][i] = IF i \in running THEN ReturnedBy(c, Children(c.n)[i])
                                  ELSE StatusesBefore(c)[i]

\* C6's case: a Parallel tick that skips a child recorded Failure and stays Running.
C6_Witness ==
  \E j \in ExecuteCalls :
    /\ Type(calls[j].n) = "Parallel"
    /\ calls[j].pre = Some(<<FAILURE, RUNNING>>)
    /\ Len(calls[j].kids) = 1
    /\ calls[j].status = RUNNING

\* The kinds of the hook calls h made for Action n and agent a, in order.
KindsFor(h, n, a) ==
  [i \in DOMAIN SelectSeq(h, LAMBDA e : e.n = n /\ e.a = a) |->
    SelectSeq(h, LAMBDA e : e.n = n /\ e.a = a)[i].k]

\* The status the Action's function returned in h, "-" when it did not run.
ReturnedIn(h, n, a) ==
  IF \E i \in DOMAIN h : h[i].n = n /\ h[i].a = a /\ h[i].k = "action"
    THEN h[CHOOSE i \in DOMAIN h : h[i].n = n /\ h[i].a = a /\ h[i].k = "action"].status
    ELSE "-"

WasResetIn(cl, n, a) ==
  \E k \in DOMAIN cl : cl[k].op = "reset" /\ cl[k].n = n /\ cl[k].a = a

\* What an operation must call on an Action that was `active` before it, whose
\* function returned `returned` ("-": not executed) and that was reset or not
\* afterwards: onEnter first if not active, then the function, then onExit if the
\* status is not Running; a reset calls onExit if the Action is active by then.
ExpectedKinds(active, returned, wasReset) ==
  (IF returned = "-" THEN <<>>
   ELSE (IF active THEN <<>> ELSE <<"onEnter">>) \o <<"action">>
        \o (IF returned # RUNNING THEN <<"onExit">> ELSE <<>>))
  \o (IF wasReset /\ (IF returned = "-" THEN active ELSE returned = RUNNING)
        THEN <<"onExit">> ELSE <<>>)

C8_ResetReachesEveryNode ==
  [][last'.op = "reset" =>
       /\ \A n \in Descendants(root) :
            Cardinality({k \in DOMAIN calls' :
                           calls'[k].op = "reset" /\ calls'[k].n = n /\ calls'[k].a = last'.a}) = 1
       /\ \A n \in ActionNodes :
            KindsFor(hooks', n, last'.a)
              = IF n \in Descendants(root) /\ isRunning[n][last'.a] = Some(TRUE)
                  THEN <<"onExit">> ELSE <<>>
       /\ \A i \in DOMAIN hooks' : hooks'[i].a = last'.a
       /\ \A n \in Descendants(root) :
            /\ currentIndex'[n][last'.a] = None
            /\ statuses'[n][last'.a] = None
            /\ isRunning'[n][last'.a] = None
            /\ timeElapsed'[n][last'.a] = None]_vars

\* C8's case: the reset exits an Action under a Parallel the Sequence above it has
\* moved past, the Sequence being at its second child.
C8_Witness ==
  /\ last.op = "reset"
  /\ root = 10
  /\ \E k \in ResetCalls : calls[k].n = 10 /\ calls[k].pre = Some(1)
  /\ \E k \in ResetCalls : calls[k].n = 12 /\ calls[k].pre = Some(TRUE)
  /\ \E i \in DOMAIN hooks : hooks[i].k = "onExit" /\ hooks[i].n = 12

\* C9: after removeAgent(id) no node holds a keyed entry for id.
C9_RemovedAgentLeavesNoEntries ==
  last.op = "removeAgent" => AgentEntries(NodeState, last.a) = NoEntries

\* The agents whose tree the last operation executed, in the order of the calls.
TreeExecutions ==
  [i \in DOMAIN SelectSeq(calls, LAMBDA c : c.op = "execute" /\ c.n = root) |->
    SelectSeq(calls, LAMBDA c : c.op = "execute" /\ c.n = root)[i].a]

\* The registered agents that have a behaviour tree, in insertion order.
AgentsWithTree == SelectSeq(agents, LAMBDA id : behaviorTree[id] # None)

\* C10 as claimed: every update executes the tree of every registered agent once,
\* in insertion order.
C10_EveryUpdateTicksEveryAgent ==
  last.op = "update" => TreeExecutions = AgentsWithTree

\* C10: an update made once the system is initialized executes the tree of every
\* registered agent that has one, once each, in insertion order, whatever the trees
\* return; an update made before that executes nothing.
C10_InitializedUpdateTicksEveryAgent ==
  last.op = "update" =>
    TreeExecutions = IF isInitialized THEN AgentsWithTree ELSE <<>>

\* C10's case: an update ticks two agents, the one registered first second in id
\* order, whose trees return different statuses.
C10_Witness ==
  /\ last.op = "update"
  /\ isInitialized
  /\ agents = <<"a2", "a1">>
  /\ TreeExecutions = <<"a2", "a1">>
  /\ \E j, k \in ExecuteCalls :
       /\ calls[j].n = root /\ calls[j].a = "a2" /\ calls[j].status = FAILURE
       /\ calls[k].n = root /\ calls[k].a = "a1" /\ calls[k].status = RUNNING

----------------------------------------------------------------------------
WaitNodes == {n \in NodeIds : Type(n) = "Wait"}

\* The time a Wait call started from.
StartTime(c) == IF c.pre = None THEN 0 ELSE c.pre[1]

\* C11: a Wait adds the dt of each execute to the agent's accumulated time; it
\* returns Running and stores the sum while the sum is below the duration, and on
\* the first tick the sum reaches the duration it returns Success and drops the
\* entry, so the next execute starts from 0.  A stored time is therefore always
\* above 0 and below the duration.
C11_WaitAccumulates ==
  /\ \A n \in WaitNodes, a \in AgentIds :
       timeElapsed[n][a] # None =>
         timeElapsed[n][a][1] > 0 /\ timeElapsed[n][a][1] < Duration(n)
  /\ \A k \in ExecuteCalls :
       LET c == calls[k]
           sum == StartTime(c) + last.dt
       IN Type(c.n) = "Wait" =>
            /\ last.op = "execute"
            /\ sum < Duration(c.n) => c.status = RUNNING /\ c.post = Some(sum)
            /\ sum >= Duration(c.n) => c.status = SUCCESS /\ c.post = None

\* C11's case: a Wait that held an accumulated time reaches its duration on a
\* later tick, succeeds and drops its entry.
C11_Witness ==
  /\ last.op = "execute"
  /\ \E k \in ExecuteCalls :
       /\ Type(calls[k].n) = "Wait"
       /\ calls[k].pre = Some(1)
       /\ calls[k].status = SUCCESS
       /\ timeElapsed[calls[k].n][calls[k].a] = None

\* C12: RepeatUntilFailure executes its child once; it returns Failure exactly when
\* the child returned Failure and Running otherwise, never Success; when the child
\* returned Success it calls child.reset(agent) after the child's execute and before
\* returning, which leaves no keyed entry of the agent below it; otherwise it makes
\* no reset call.
C12_RepeatUntilFailure ==
  \A k \in ExecuteCalls :
    LET c == calls[k]
        child == Children(c.n)[1]
        resets == {j \in ResetCalls : calls[j].n = child /\ calls[j].a = c.a}
        runs == {j \in ExecuteCalls : calls[j].n = child /\ calls[j].a = c.a}
    IN Type(c.n) = "RepeatUntilFailure" =>
         /\ Len(c.kids) = 1 /\ c.kids[1][1] = child
         /\ Cardinality(runs) = 1
         /\ c.status = (IF c.kids[1][2] = FAILURE THEN FAILURE ELSE RUNNING)
         /\ c.kids[1][2] = SUCCESS =>
              /\ resets = {k - 1}
              /\ \A j \in runs : j < k - 1
              /\ \A m \in Descendants(child) : Own(NodeState, m, c.a) = None
         /\ c.kids[1][2] # SUCCESS => resets = {} /\ runs = {k - 1}

\* C12's case: the child of a RepeatUntilFailure succeeds, is reset, and the
\* RepeatUntilFailure returns Running.
C12_Witness ==
  \E k \in ExecuteCalls :
    /\ Type(calls[k].n) = "RepeatUntilFailure"
    /\ calls[k].kids[1][2] = SUCCESS
    /\ calls[k].status = RUNNING
    /\ k > 1 /\ calls[k - 1].op = "reset"

InverterNodes == {n \in NodeIds : Type(n) = "Inverter"}

\* C13: an Inverter executes its child exactly once per execute and returns Running
\* for Running, Failure for Success and Success for Failure; no keyed map ever
\* holds an entry under an Inverter.
C13_Inverter ==
  /\ \A n \in InverterNodes, a \in AgentIds :
       AgentEntries(NodeState, a)[n] = NoEntries[n]
  /\ \A k \in ExecuteCalls :
       LET c == calls[k]
           child == Children(c.n)[1]
       IN Type(c.n) = "Inverter" =>
            /\ c.kids = <<<<child, calls[k - 1].status>>>>
            /\ calls[k - 1].op = "execute" /\ calls[k - 1].n = child /\ calls[k - 1].a = c.a
            /\ Cardinality({j \in ExecuteCalls : calls[j].n = child /\ calls[j].a = c.a})
                 = Cardinality({j \in ExecuteCalls : calls[j].n = c.n /\ calls[j].a = c.a})
            /\ c.pre = None /\ c.post = None
            /\ c.kids[1][2] = RUNNING => c.status = RUNNING
            /\ c.kids[1][2] = SUCCESS => c.status = FAILURE
            /\ c.kids[1][2] = FAILURE => c.status = SUCCESS

\* C13's case: an Inverter whose child fails returns Success.
C13_Witness ==
  \E k \in ExecuteCalls :
    /\ Type(calls[k].n) = "Inverter"
    /\ calls[k].kids[1][2] = FAILURE
    /\ calls[k].status = SUCCESS

----------------------------------------------------------------------------
\* The ids of the graph's nodes
GraphIds == {nodes[i].id : i \in DOMAIN nodes}

PositionOf(id) == NodesGet(nodes, id).position

\* The node nearest to the position: of the nodes at the least distance, the one
\* added first.
NearestNode(position) ==
  nodes[CHOOSE i \in DOMAIN nodes :
          /\ \A j \in DOMAIN nodes :
               Distance(position, nodes[i].position) <= Distance(position, nodes[j].position)
          /\ \A j \in 1..(i - 1) :
               Distance(position, nodes[i].position) < Distance(position, nodes[j].position)].id

HasEdge(fromId, toId) == \E i \in DOMAIN NodesGet(nodes, fromId).connections :
                           NodesGet(nodes, fromId).connections[i].nodeId = toId

EdgeCost(fromId, toId) ==
  NodesGet(nodes, fromId).connections[
    CHOOSE i \in DOMAIN NodesGet(nodes, fromId).connections :
      NodesGet(nodes, fromId).connections[i].nodeId = toId].cost

\* C14: a non-empty path returned by findPath is the positions of a walk through
\* the graph: it starts at the node nearest to the start position, ends at the
\* node nearest to the end position, every step follows a directed edge, and no
\* node is visited twice.
C14_PathIsASimpleWalk ==
  (last.op = "findPath" /\ found.path # <<>>) =>
    /\ Len(found.ids) = Len(found.path)
    /\ \A i \in DOMAIN found.ids :
         found.ids[i] \in GraphIds /\ found.path[i] = PositionOf(found.ids[i])
    /\ found.ids[1] = NearestNode(found.start)
    /\ found.ids[Len(found.ids)] = NearestNode(found.end)
    /\ \A i \in 1..(Len(found.ids) - 1) : HasEdge(found.ids[i], found.ids[i + 1])
    /\ \A i, j \in DOMAIN found.ids : i # j => found.ids[i] # found.ids[j]

\* C14's case: a path through three nodes, the middle one being the only way.
C14_Witness ==
  /\ last.op = "findPath"
  /\ Len(found.path) = 3
  /\ found.path[1] # found.path[3]
  /\ ~HasEdge(found.ids[1], found.ids[3])

\* Every edge of the graph costs the distance between the nodes it joins.
CostsAreDistances ==
  \A u, v \in GraphIds :
    HasEdge(u, v) => EdgeCost(u, v) = Distance(PositionOf(u), PositionOf(v))

Least(costs) == CHOOSE x \in costs : \A y \in costs : x <= y

RECURSIVE Cheapest(_, _, _)
\* The least total cost of a directed walk of at most hops edges from fromId to
\* toId, Infinity when there is none
Cheapest(fromId, toId, hops) ==
  IF fromId = toId THEN 0
  ELSE IF hops = 0 THEN Infinity
  ELSE Least({Infinity} \cup
             {Plus(Cheapest(v, toId, hops - 1), EdgeCost(fromId, v)) :
                v \in {w \in GraphIds : HasEdge(fromId, w)}})

\* The total cost of the edges along the walk
RECURSIVE WalkCost(_)
WalkCost(ids) ==
  IF Len(ids) < 2 THEN 0 ELSE EdgeCost(ids[1], ids[2]) + WalkCost(Tail(ids))

\* C15: when every edge costs the Euclidean distance between its endpoints, the
\* path findPath returns costs as little as any directed walk from the start node
\* to the end node.
C15_PathIsCheapest ==
  (last.op = "findPath" /\ found.path # <<>> /\ CostsAreDistances) =>
    WalkCost(found.ids)
      = Cheapest(found.ids[1], found.ids[Len(found.ids)], Len(nodes) - 1)

\* C15's case: from node 4 to node 3 with no direct edge, the way 4, 1, 3 of cost
\* 23 is returned although node 2 is nearer to the goal and leads to node 1 too,
\* by the dearer way 4, 2, 1, 3 of cost 31.
C15_Witness ==
  /\ last.op = "findPath"
  /\ CostsAreDistances
  /\ found.ids = <<4, 1, 3>>
  /\ HasEdge(4, 2) /\ HasEdge(2, 1) /\ ~HasEdge(2, 3) /\ ~HasEdge(4, 3)
  /\ WalkCost(found.ids) = 23

RECURSIVE ReachableFrom(_)
\* The nodes that directed edges lead to from the given set of nodes
ReachableFrom(ids) ==
  IF \A u \in ids : \A v \in GraphIds : HasEdge(u, v) => v \in ids THEN ids
  ELSE ReachableFrom(ids \cup {v \in GraphIds : \E u \in ids : HasEdge(u, v)})

\* C16: findPath returns the empty sequence exactly when the graph has no node or
\* no directed edges lead from the node nearest to the start position to the node
\* nearest to the end position.
C16_EmptyIffUnreachable ==
  last.op = "findPath" =>
    (found.path = <<>>
       <=> (nodes = <<>>
              \/ NearestNode(found.end) \notin ReachableFrom({NearestNode(found.start)})))

\* C16's case: the graph has edges but none leads to the end node, which differs
\* from the start node.
C16_Witness ==
  /\ last.op = "findPath"
  /\ found.path = <<>>
  /\ Len(nodes) = 3
  /\ \E u, v \in GraphIds : HasEdge(u, v) /\ u = NearestNode(found.start)
  /\ NearestNode(found.end) # NearestNode(found.start)

\* C17: AISystem.findPath returns the empty sequence when no navigation graph is
\* set and what the graph's findPath returns when one is set, and changes neither
\* the registry, nor the agents, nor the graph reference, nor the graph.
C17_SystemFindPath ==
  [][last'.op = "AISystem.findPath" =>
       /\ navigationMesh = None => found'.path = <<>>
       /\ navigationMesh # None => found'.path = findPath(Mesh, found'.start, found'.end)
       /\ UNCHANGED <<agents, behaviorTree, isInitialized, navigationMesh, vertices, nodes>>]_vars

\* C17's case: a path is asked for while agents are registered and a graph with a
\* way between the two positions exists but was never set.
C17_Witness ==
  /\ last.op = "AISystem.findPath"
  /\ navigationMesh = None
  /\ agents # <<>>
  /\ found.path = <<>>
  /\ findPath(Mesh, found.start, found.end) # <<>>

\* C18: connectNodes with an id that is not a node of the graph changes nothing:
\* no node is added and every node keeps its connections, also when the other id
\* is a node and the call asks for both directions.
C18_ConnectUnknownNodeAborts ==
  [][(last'.op = "connectNodes"
        /\ (~NodesHas(nodes, found'.start) \/ ~NodesHas(nodes, found'.end))) =>
       nodes' = nodes /\ vertices' = vertices]_vars

\* C18's case: connectNodes in both directions from an unknown id to a node that
\* has a connection already.
C18_Witness ==
  /\ last.op = "connectNodes"
  /\ found.bidirectional
  /\ ~NodesHas(nodes, found.start)
  /\ NodesHas(nodes, found.end)
  /\ NodesGet(nodes, found.end).connections # <<>>

\* The place of a registered id in the registry's insertion order
PlaceOf(keys, id) == CHOOSE i \in DOMAIN keys : keys[i] = id

\* C19: removeAgent(id) for an id that is not registered leaves the registry and
\* every agent as they were; for a registered id it removes that id and no other,
\* the others keeping their agents and their order.
C19_RemoveAgent ==
  [][last'.op = "removeAgent" =>
       /\ ~InRegistry(last'.a) => agents' = agents /\ behaviorTree' = behaviorTree
       /\ {agents'[i] : i \in DOMAIN agents'} = Registered \ {last'.a}
       /\ Len(agents') = Cardinality(Registered \ {last'.a})
       /\ \A b, c \in Registered \ {last'.a} :
            /\ behaviorTree'[b] = behaviorTree[b]
            /\ PlaceOf(agents, b) < PlaceOf(agents, c)
                 => PlaceOf(agents', b) < PlaceOf(agents', c)]_vars

\* C19's case: removeAgent of an id that is not registered while another agent,
\* which has a behaviour tree, is.
C19_Witness ==
  /\ last.op = "removeAgent"
  /\ last.status = "unknown"
  /\ \E i \in DOMAIN agents : agents[i] # last.a /\ behaviorTree[agents[i]] # None

\* C20: followPath(dt) on an empty path returns true, calls nothing and leaves
\* the agent as it was.  On a non-empty path it calls moveTowards once, on the
\* waypoint at the cursor.  When that call reports arrival the cursor advances
\* by one: past the last waypoint the path is cleared, the cursor is 0 and the
\* same call returns true; otherwise the call returns false with the cursor on
\* the next waypoint.  Without arrival the path and the cursor stay and the
\* call returns false.
C20_FollowPath ==
  [][last'.op = "followPath" =>
       IF Len(path[last'.a]) = 0
         THEN /\ last'.status = "true"
              /\ calls' = <<>>
              /\ UNCHANGED moveVars
         ELSE /\ Len(calls') = 1
              /\ calls'[1].op = "moveTowards"
              /\ calls'[1].a = last'.a
              /\ calls'[1].target = path[last'.a][currentPathIndex[last'.a] + 1]
              /\ IF calls'[1].returned
                   THEN IF currentPathIndex[last'.a] + 1 = Len(path[last'.a])
                          THEN /\ path'[last'.a] = <<>>
                               /\ currentPathIndex'[last'.a] = 0
                               /\ last'.status = "true"
                          ELSE /\ path'[last'.a] = path[last'.a]
                               /\ currentPathIndex'[last'.a] = currentPathIndex[last'.a] + 1
                               /\ last'.status = "false"
                   ELSE /\ path'[last'.a] = path[last'.a]
                        /\ currentPathIndex'[last'.a] = currentPathIndex[last'.a]
                        /\ last'.status = "false"]_vars

\* An agent that walked away from the origin has just arrived at the last
\* waypoint of its path: the path is cleared and the call returned true.
C20_Witness ==
  /\ last.op = "followPath"
  /\ last.status = "true"
  /\ calls # <<>>
  /\ calls[1].returned
  /\ path[last.a] = <<>>
  /\ currentPathIndex[last.a] = 0
  /\ transform[last.a] # None
  /\ transform[last.a][1].position # Zero
  /\ transform[last.a][1].rotation # Zero

\* C21: moveTowards(target, dt) of an agent with a transform whose distance to
\* the target is at most stoppingDistance sets the velocity to zero and returns
\* true in that call, and leaves the transform's position and rotation as they
\* were; at a greater distance it returns false.
C21_MoveTowardsArrival ==
  [][(last'.op = "moveTowards" /\ transform[last'.a] # None) =>
       IF Distance(transform[last'.a][1].position, calls'[1].target)
            <= Config.stoppingDistance
         THEN /\ last'.status = "true"
              /\ velocity'[last'.a] = Zero
              /\ transform'[last'.a] = transform[last'.a]
         ELSE last'.status = "false"]_vars

\* An agent that has moved and turned has just been reported as arrived, one
\* stopping distance short of its target, and stands still.
C21_Witness ==
  /\ last.op = "moveTowards"
  /\ last.status = "true"
  /\ velocity[last.a] = Zero
  /\ transform[last.a] # None
  /\ Distance(transform[last.a][1].position, calls[1].target) = Config.stoppingDistance
  /\ transform[last.a][1].rotation # Zero

\* The velocity updates the claims about acceleration x dt <= 1 speak of
GentleUpdate(c) ==
  /\ c.op = "blend"
  /\ 0 < c.acceleration * c.deltaTime
  /\ c.acceleration * c.deltaTime <= Unit * Unit

\* to lies between from and desired, both included
Between(from, to, desired) ==
  \/ from <= to /\ to <= desired
  \/ desired <= to /\ to <= from

\* The exact change (desired - from) x acceleration x dt, doubled, against one
\* spacing of the representable values, both counted in 1 / Unit^3
TwiceChange(c) == 2 * Abs((c.desired - c.from) * c.acceleration * c.deltaTime)
Spacing == Unit * Unit

YawOf(tr) == tr[1].rotation[2]

\* The yaw moveTowards turns towards, that of the velocity v
DesiredYaw(v) == Atan2Degrees(v[1], v[3])

\* C23: in a moveTowards call that moves the agent with a velocity that is not
\* zero, the difference getAngleDifference computes between the current and the
\* desired yaw is within [-180, 180] and is the desired yaw minus the current one
\* up to whole turns, whatever the two yaws are; the yaw of the transform changes
\* by at most turnSpeed x dt in absolute value, by the whole difference when that
\* is no more, and never against the sign of the difference.
C23_TurnIsShortestAndClamped ==
  [][(/\ last'.op = "moveTowards"
      /\ last'.status = "false"
      /\ transform[last'.a] # None
      /\ velocity'[last'.a] # Zero) =>
       /\ getAngleDifference(YawOf(transform[last'.a]), DesiredYaw(velocity'[last'.a]))
            \in -180..180
       /\ (DesiredYaw(velocity'[last'.a]) - YawOf(transform[last'.a])
             - getAngleDifference(YawOf(transform[last'.a]),
                                  DesiredYaw(velocity'[last'.a]))) % 360 = 0
       /\ Abs(YawOf(transform'[last'.a]) - YawOf(transform[last'.a]))
            <= Config.turnSpeed * last'.dt
       /\ Abs(YawOf(transform'[last'.a]) - YawOf(transform[last'.a]))
            = Min2(Abs(getAngleDifference(YawOf(transform[last'.a]),
                                          DesiredYaw(velocity'[last'.a]))),
                   Config.turnSpeed * last'.dt)
       /\ Sign(YawOf(transform'[last'.a]) - YawOf(transform[last'.a]))
            = Sign(getAngleDifference(YawOf(transform[last'.a]),
                                      DesiredYaw(velocity'[last'.a])))]_vars

\* An agent facing a yaw beyond a whole turn has just turned by the full
\* turnSpeed x dt towards a velocity whose yaw is more than that away, and is
\* still beyond a whole turn.
C23_Witness ==
  /\ last.op = "moveTowards"
  /\ last.status = "false"
  /\ transform[last.a] # None
  /\ velocity[last.a] # Zero
  /\ YawOf(transform[last.a]) > 360
  /\ YawOf(transform[last.a]) - 400 = Config.turnSpeed * last.dt
  /\ getAngleDifference(YawOf(transform[last.a]), DesiredYaw(velocity[last.a])) # 0

\* The re-plans among the hooks of a call
Replans(h) == {i \in DOMAIN h : h[i].k = "replan"}

\* C24 as stated, for two ticks in a row: when a tick of the chase, its target
\* selector returning a position, follows a tick that did not re-plan, and the
\* two tick lengths together reach updateRate, the chase re-plans in it, also
\* when each of the two is shorter than updateRate and the agent had no target.
C24_ChaseReplansOnSchedule ==
  [][(/\ last.op = "execute"
      /\ Replans(hooks) = {}
      /\ last'.op = "execute"
      /\ last'.a = last.a
      /\ last.dt + last'.dt >= UpdateRate(root)) =>
       Replans(hooks') # {}]_vars

\* The path the navigation graph finds for the agent towards p, empty when the
\* AISystem has no graph or the agent no transform
GraphPath(a, p) ==
  IF navigationMesh = None \/ transform[a] = None THEN <<>>
  ELSE findPath(Mesh, transform[a][1].position, p)

\* C27: when the chase re-plans towards a position p, the path it assigns is the
\* path the navigation graph finds from the agent's position to p when that is
\* not empty, and the single waypoint p otherwise (no graph set, no node in the
\* graph, p not reachable); it is never empty, and it is the agent's path after
\* the call unless the agent arrived at its end in the same call.
C27_ChasePathOrDirect ==
  [][(last'.op = "execute" /\ Replans(hooks') # {}) =>
       \A i \in Replans(hooks') :
         /\ hooks'[i].assigned =
              IF Len(GraphPath(last'.a, hooks'[i].target)) > 0
                THEN GraphPath(last'.a, hooks'[i].target)
                ELSE <<hooks'[i].target>>
         /\ hooks'[i].assigned # <<>>
         /\ currentTarget'[last'.a] = Some(hooks'[i].target)
         /\ path'[last'.a] \in {hooks'[i].assigned, <<>>}]_vars

\* The chase has just re-planned along the graph, on a path of two waypoints
\* that the agent is now following.
C27_Witness ==
  /\ last.op = "execute"
  /\ \E i \in Replans(hooks) :
       /\ Len(hooks[i].assigned) = 2
       /\ path[last.a] = hooks[i].assigned
  /\ navigationMesh # None

\* The agent b is after its own execute alone, run on the state before the update
OwnSlice(b, dt, o) == execute(behaviorTree[b][1], b, dt, o, NodeState).st.agent[b]

\* The agents an update executes the tree for
Ticked(b) == isInitialized /\ InRegistry(b) /\ behaviorTree[b] # None

\* C26: during AISystem.update on a tree shared by the agents, an agent's blackboard, path,
\* path cursor, target and velocity come out as its own execute alone leaves them, whatever
\* the other agent's tick did, and an agent the update does not execute keeps them.
C26_AgentStateIsOwn ==
  [][last'.op = "update" =>
       \A b \in AgentIds :
         IF Ticked(b)
           THEN \E o \in FactoryOracles(root) : AgentOf(b)' = OwnSlice(b, last'.dt, o)
           ELSE AgentOf(b)' = AgentOf(b)]_vars

\* Both agents were ticked on the shared tree: one chases a target, the other patrols
C26_Witness ==
  /\ last.op = "update"
  /\ \A b \in AgentIds : Ticked(b)
  /\ \E b \in AgentIds : \E i \in DOMAIN hooks : hooks[i].a = b /\ hooks[i].k = "replan"
  /\ \E b, c \in AgentIds :
       /\ currentTarget[b] # None /\ blackboard[b].chaseTimer # None
       /\ currentTarget[c] = None /\ blackboard[c].patrolIndex # None /\ path[c] # <<>>

\* The behaviour that is the agent's whole tree has ended or has been cancelled while active
BehaviorOver(a) ==
  \/ last'.op = "execute" /\ last'.a = a /\ last'.status \in {SUCCESS, FAILURE}
  \/ last'.op = "reset" /\ last'.a = a /\ WasRunning(NodeState, root, a)

\* C25: when a factory behaviour returns Success or Failure, or is reset while active, the
\* agent's path is empty afterwards, and the blackboard keys and the target are removed.
C25_NoStaleAgentState ==
  [][\A a \in Movers :
       BehaviorOver(a) =>
         path'[a] = <<>> /\ blackboard'[a] = EmptyBlackboard /\ currentTarget'[a] = None]_vars

\* C28: getClosestPoint(p) returns the position of a registered node that no registered
\* node is closer to p than, getRandomPoint() the position of some registered node, and
\* both return the origin when no node is registered.
C28_ClosestAndRandomPoint ==
  /\ found.op = "getClosestPoint" =>
       IF nodes = <<>> THEN found.path = <<Zero>>
       ELSE \E i \in DOMAIN nodes :
              /\ found.path = <<nodes[i].position>>
              /\ \A j \in DOMAIN nodes :
                   Distance(found.start, nodes[i].position)
                     <= Distance(found.start, nodes[j].position)
  /\ found.op = "getRandomPoint" =>
       IF nodes = <<>> THEN found.path = <<Zero>>
       ELSE \E i \in DOMAIN nodes : found.path = <<nodes[i].position>>

\* The closest of three registered nodes is not the one registered first
C28_Witness ==
  /\ found.op = "getClosestPoint"
  /\ Len(nodes) = 3
  /\ found.path # <<nodes[1].position>>
  /\ found.start \notin {nodes[i].position : i \in DOMAIN nodes}

\* The rounds of the last findPath, and a node's scores at the start of a round
Rounds == found.rounds
FOf(k, id) == GetOrInfinity(Rounds[k].fScore, id)
GOf(k, id) == GetOrInfinity(Rounds[k].gScore, id)

\* The open set of round k without the member the round selected
Rest(k) == SelectSeq(Rounds[k].openSet, LAMBDA id : id # Rounds[k].current)

\* The member selected has the lowest fScore, and every member before it a higher one
LowestAndEarliest(k) ==
  \A i \in DOMAIN Rounds[k].openSet :
    /\ FOf(k, Rounds[k].current) <= FOf(k, Rounds[k].openSet[i])
    /\ FOf(k, Rounds[k].openSet[i]) = FOf(k, Rounds[k].current) =>
         \E j \in 1..i : Rounds[k].openSet[j] = Rounds[k].current

\* Round k improved the gScore of id, which an earlier round had expanded and which was
\* not waiting in the open set
Reimproved(k, id) ==
  /\ \E i \in 1..k : Rounds[i].current = id
  /\ GOf(k + 1, id) < GOf(k, id)
  /\ ~Includes(Rest(k), id)

\* id was pushed behind the members that were waiting
PushedBehind(k, id) ==
  /\ Len(Rounds[k + 1].openSet) > Len(Rest(k))
  /\ SubSeq(Rounds[k + 1].openSet, 1, Len(Rest(k))) = Rest(k)
  /\ \E p \in (Len(Rest(k)) + 1)..Len(Rounds[k + 1].openSet) :
       Rounds[k + 1].openSet[p] = id

ExpandedAfter(k, id) == \E j \in (k + 1)..Len(Rounds) : Rounds[j].current = id

\* The search returned a path while id was still waiting in the open set
EndedBefore(id) == found.path # <<>> /\ Includes(Rounds[Len(Rounds)].openSet, id)

\* C29 as stated: every round of findPath selects the member with the lowest fScore, the
\* earliest inserted of those with equal lowest fScore; a node whose gScore is improved
\* after it was expanded is pushed at the end of the open set and is expanded again.
C29_ReinsertedAndExpandedAgain ==
  last.op = "findPath" =>
    /\ \A k \in DOMAIN Rounds : LowestAndEarliest(k)
    /\ \A k \in 1..(Len(Rounds) - 1) : \A id \in NavNodeIds :
         Reimproved(k, id) => PushedBehind(k, id) /\ ExpandedAfter(k, id)

\* C29 as the code has it: the same selection and the same push, and the node is
\* expanded again unless the search first selects the end node and returns.
C29_ReinsertedUntilEnd ==
  last.op = "findPath" =>
    /\ \A k \in DOMAIN Rounds : LowestAndEarliest(k)
    /\ \A k \in 1..(Len(Rounds) - 1) : \A id \in NavNodeIds :
         Reimproved(k, id) =>
           PushedBehind(k, id) /\ (ExpandedAfter(k, id) \/ EndedBefore(id))

\* A round chose between two members of equal lowest fScore, and a later round improved
\* and pushed a node that had been expanded
C29_Witness ==
  /\ last.op = "findPath"
  /\ \E k \in DOMAIN Rounds : \E i \in DOMAIN Rounds[k].openSet :
       /\ Rounds[k].openSet[i] # Rounds[k].current
       /\ FOf(k, Rounds[k].openSet[i]) = FOf(k, Rounds[k].current)
  /\ \E k \in 1..(Len(Rounds) - 1) : \E id \in NavNodeIds :
       Reimproved(k, id) /\ ExpandedAfter(k, id)

\* The child at the index the root keeps for the agent
ChildInControl(a) == Children(root)[currentIndex[root][a][1] + 1]

\* The root keeps an index for the agent: it is a Sequence or a Selector that was
\* executed for the agent and not reset since
RootHolds(a) == Type(root) \in {"Sequence", "Selector"} /\ currentIndex[root][a] # None

\* C30: an execute for an agent executes the child at the root Sequence's or Selector's
\* current index and no other child; when that child returns Running the index stays and
\* the tree returns Running, so the next execute comes back to the same child; and what
\* is done for another agent in between leaves the index alone.  No step counts ticks.
C30_RunningChildKeepsControl ==
  [][\A a \in AgentIds :
       /\ (last'.op = "execute" /\ last'.a = a /\ RootHolds(a)) =>
            /\ \A k \in DOMAIN calls' :
                 /\ calls'[k].n \in {root} \cup Descendants(ChildInControl(a))
                 /\ calls'[k].n = root =>
                      /\ Len(calls'[k].kids) = 1
                      /\ calls'[k].kids[1][1] = ChildInControl(a)
                      /\ calls'[k].kids[1][2] = RUNNING =>
                           /\ last'.status = RUNNING
                           /\ currentIndex'[root][a] = currentIndex[root][a]
            /\ \E k \in DOMAIN calls' : calls'[k].n = root
       /\ (last'.op \in {"execute", "reset"} /\ last'.a # a) =>
            currentIndex'[root][a] = currentIndex[root][a]]_vars

\* An execute came back to the second child, which had the control, and it is Running still
C30_Witness ==
  /\ last.op = "execute"
  /\ last.status = RUNNING
  /\ \E k \in DOMAIN calls :
       /\ calls[k].n = root
       /\ Type(root) \in {"Sequence", "Selector"}
       /\ calls[k].pre = Some(1)
       /\ calls[k].post = Some(1)
       /\ calls[k].kids = <<<<Children(root)[2], RUNNING>>>>

\* The adjacency entries of a node of a graph: the neighbour ids with their costs
EntriesOf(ns, id) ==
  {<<NodesGet(ns, id).connections[i].nodeId, NodesGet(ns, id).connections[i].cost>> :
     i \in DOMAIN NodesGet(ns, id).connections}

\* The entries with the one for neighbour nodeId set to cost
WithEntry(entries, nodeId, cost) ==
  {e \in entries : e[1] # nodeId} \cup {<<nodeId, cost>>}

\* C31: connectNodes(fromId, toId, bidirectional) on two registered nodes records
\* fromId -> toId with the distance between the two positions as its cost, records
\* toId -> fromId with the same cost exactly when bidirectional is true, and leaves
\* every other adjacency entry, every position and the vertices as they were.
C31_ConnectNodes ==
  [][(last'.op = "connectNodes"
        /\ NodesHas(nodes, found'.start) /\ NodesHas(nodes, found'.end)) =>
       LET fromId == found'.start
           toId == found'.end
           cost == Distance(PositionOf(fromId), PositionOf(toId))
       IN /\ vertices' = vertices
          /\ Len(nodes') = Len(nodes)
          /\ \A i \in DOMAIN nodes :
               /\ nodes'[i].id = nodes[i].id
               /\ nodes'[i].position = nodes[i].position
               /\ nodes[i].id \notin {fromId, toId} =>
                    nodes'[i].connections = nodes[i].connections
          /\ EntriesOf(nodes', fromId) = WithEntry(EntriesOf(nodes, fromId), toId, cost)
          /\ Len(NodesGet(nodes', fromId).connections)
               = Cardinality(EntriesOf(nodes', fromId))
          /\ EntriesOf(nodes', toId)
               = IF found'.bidirectional
                   THEN WithEntry(EntriesOf(nodes, toId), fromId, cost)
                   ELSE EntriesOf(nodes, toId)]_vars

\* A one-way connection was made between two nodes of three, against an edge that
\* was there already, and no edge back was recorded
C31_Witness ==
  /\ last.op = "connectNodes"
  /\ ~found.bidirectional
  /\ Len(nodes) = 3
  /\ HasEdge(found.start, found.end)
  /\ ~HasEdge(found.end, found.start)
  /\ EdgeCost(found.start, found.end) > 0
  /\ \E id \in GraphIds \ {found.start, found.end} : NodesGet(nodes, id).connections # <<>>

\* The tree has no Parallel
NoParallel(r) == \A n \in Descendants(r) : Type(n) # "Parallel"

\* The node's keyed entry for the agent reads as on a node never executed: index 0 or
\* none, not running, no time
AsNew(n, a) ==
  CASE Type(n) \in {"Sequence", "Selector"} -> currentIndex[n][a] \in {None, Some(0)}
    [] Type(n) = "Action" -> isRunning[n][a] \in {None, Some(FALSE)}
    [] Type(n) = "Wait" -> timeElapsed[n][a] = None
    [] OTHER -> TRUE

\* What an execute did, leaving out the entries the nodes held before it
Outcome(r) ==
  [status |-> r.status, hooks |-> r.hooks,
   calls |-> [k \in DOMAIN r.calls |->
                <<r.calls[k].op, r.calls[k].n, r.calls[k].a, r.calls[k].kids,
                  r.calls[k].status, r.calls[k].post>>]]

\* C32: on a tree without Parallel, when the root has returned Success or Failure for
\* an agent, every node's entry for that agent reads as new, and the next execute for
\* the agent does what a first execute does, whatever the leaves return.
C32_ResolvedTreeIsAsNew ==
  (last.op = "execute" /\ last.status \in {SUCCESS, FAILURE} /\ NoParallel(root)) =>
    /\ \A n \in Descendants(root) : AsNew(n, last.a)
    /\ \A dt \in DeltaTimes, o \in Oracles(root) :
         Outcome(execute(root, last.a, dt, o, NodeState))
           = Outcome(execute(root, last.a, dt, o, EmptyNodeState))

\* A Sequence failed at its last child after its Wait had run for two ticks
C32_Witness ==
  /\ last.op = "execute"
  /\ last.status = FAILURE
  /\ NoParallel(root)
  /\ \E k \in ExecuteCalls :
       /\ calls[k].n = root
       /\ Type(root) = "Sequence"
       /\ calls[k].pre = Some(2)
       /\ calls[k].post = Some(0)
  /\ \E n \in Descendants(root) : Type(n) = "Wait" /\ Duration(n) > 1

\* The Parallel calls of the last operation that returned Success or Failure
ResolvedParallels ==
  {k \in ExecuteCalls : Type(calls[k].n) = "Parallel" /\ calls[k].status \in {SUCCESS, FAILURE}}

\* The children a Parallel call executed and recorded Running
LeftRunning(c) == {c.kids[i][1] : i \in {j \in DOMAIN c.kids : c.kids[j][2] = RUNNING}}

\* The Parallel nodes of the tree that hold no status array for the agent
IdleParallels(a) == {n \in Descendants(root) \cap ParallelNodes : statuses[n][a] = None}

\* The execute call r made on node n
CallIn(r, n) == r.calls[CHOOSE k \in DOMAIN r.calls : r.calls[k].n = n /\ r.calls[k].op = "execute"]

\* C33: when a Parallel returns Success or Failure for an agent while a child is
\* recorded Running, the child is not reset: an Action child stays active for the agent
\* and its onExit is not called, a Wait child keeps the time it has accumulated; and the
\* next activation of the Parallel executes such a child from that state, an Action
\* without onEnter and a Wait from its accumulated time.
C33_ResolvedParallelLeavesRunningChildren ==
  /\ \A k \in ResolvedParallels : \A ch \in LeftRunning(calls[k]) :
       /\ Own(NodeState, ch, calls[k].a) = CallOf(ch).post
       /\ Type(ch) = "Action" =>
            /\ isRunning[ch][calls[k].a] = Some(TRUE)
            /\ \A h \in DOMAIN hooks : ~(hooks[h].k = "onExit" /\ hooks[h].n = ch)
       /\ Type(ch) = "Wait" =>
            /\ timeElapsed[ch][calls[k].a] # None
            /\ timeElapsed[ch][calls[k].a][1] > 0
  /\ \A a \in AgentIds : \A n \in IdleParallels(a) :
       \A dt \in DeltaTimes, o \in Oracles(root) :
         LET r == execute(n, a, dt, o, NodeState)
         IN \A i \in DOMAIN Children(n) :
              LET ch == Children(n)[i]
              IN /\ (Type(ch) = "Action" /\ isRunning[ch][a] = Some(TRUE)) =>
                      /\ CallIn(r, ch).pre = Some(TRUE)
                      /\ \A h \in DOMAIN r.hooks :
                           ~(r.hooks[h].k = "onEnter" /\ r.hooks[h].n = ch)
                 /\ (Type(ch) = "Wait" /\ timeElapsed[ch][a] # None) =>
                      /\ CallIn(r, ch).pre = timeElapsed[ch][a]
                      /\ CallIn(r, ch).status =
                           IF timeElapsed[ch][a][1] + dt >= Duration(ch)
                             THEN SUCCESS ELSE RUNNING

\* A Parallel that had resolved with its Action child Running is activated again: it
\* starts a new status array and executes the child, which was active still
C33_Witness ==
  /\ last.op = "execute"
  /\ \E k \in ExecuteCalls :
       /\ Type(calls[k].n) = "Parallel"
       /\ calls[k].pre = None
       /\ \E i \in DOMAIN Children(calls[k].n) :
            /\ Type(Children(calls[k].n)[i]) = "Action"
            /\ CallOf(Children(calls[k].n)[i]).pre = Some(TRUE)
       /\ \A h \in DOMAIN hooks :
            ~(hooks[h].k = "onEnter" /\ hooks[h].n \in LeftRunning(calls[k]))

Indexed == {n \in Descendants(root) : Type(n) \in {"Sequence", "Selector"}}

\* Every index a Sequence or Selector with children stores is the index of a child
IndexInRange ==
  \A n \in Indexed, a \in AgentIds :
    (Len(Children(n)) >= 1 /\ currentIndex[n][a] # None) =>
      currentIndex[n][a][1] \in 0 .. Len(Children(n)) - 1

\* An execute of a Sequence or Selector that executed no child returned at the bounds
\* guard; it did so only on a composite without children
GuardOnlyWhenEmpty ==
  \A k \in ExecuteCalls :
    calls[k].n \in Indexed => (calls[k].kids = <<>> <=> Children(calls[k].n) = <<>>)

\* The execute calls of the last operation on composites without children
EmptyCalls ==
  {k \in ExecuteCalls : /\ Type(calls[k].n) \in {"Sequence", "Selector", "Parallel"}
                        /\ Children(calls[k].n) = <<>>}

\* C34 as stated: for a Sequence or Selector with n >= 1 children the stored index of
\* every agent is in 0..n-1 after any calls, so the bounds guard is reached only with
\* zero children; with zero children Sequence returns Success, Selector Failure and
\* Parallel Success on every execute.
C34_IndexInRangeAndEmptyParallelSucceeds ==
  /\ IndexInRange
  /\ GuardOnlyWhenEmpty
  /\ \A k \in EmptyCalls :
       calls[k].status = IF Type(calls[k].n) = "Selector" THEN FAILURE ELSE SUCCESS

\* C34, amended: the index and the guard as stated, Sequence Success and Selector
\* Failure with zero children; a Parallel with zero children returns Success on every
\* execute when it was constructed without requiredSuccesses, with a negative one or
\* with 0, and Failure on every execute when it was constructed with a positive one.
C34_IndexInRangeAndEmptyComposites ==
  /\ IndexInRange
  /\ GuardOnlyWhenEmpty
  /\ \A k \in EmptyCalls :
       calls[k].status =
         CASE Type(calls[k].n) = "Sequence" -> SUCCESS
           [] Type(calls[k].n) = "Selector" -> FAILURE
           [] Type(calls[k].n) = "Parallel" ->
                IF ctorArg[calls[k].n] <= 0 THEN SUCCESS ELSE FAILURE

\* A Sequence or Selector of several children was executed at its last child, which
\* resolved it, and its index is back at 0
C34_Witness ==
  /\ last.op = "execute"
  /\ \E k \in ExecuteCalls :
       /\ calls[k].n \in Indexed
       /\ Len(Children(calls[k].n)) >= 2
       /\ calls[k].pre = Some(Len(Children(calls[k].n)) - 1)
       /\ calls[k].status \in {SUCCESS, FAILURE}
       /\ currentIndex[calls[k].n][calls[k].a] = Some(0)

\* The path cursor of every agent: 0 on an empty path, the index of a waypoint otherwise
CursorInPath ==
  \A a \in AgentIds :
    IF path[a] = <<>> THEN currentPathIndex[a] = 0
    ELSE currentPathIndex[a] \in 0 .. Len(path[a]) - 1

\* C35: after any setPath and followPath calls on an agent currentPathIndex is 0 when
\* the path is empty and within 0 .. path.length - 1 when it is not, so the waypoint
\* followPath reads is one of the path; a followPath call advances the cursor by at
\* most one.
C35_CursorStaysInPath ==
  /\ CursorInPath
  /\ [][/\ CursorInPath'
        /\ last'.op = "followPath" =>
             /\ currentPathIndex'[last'.a] <= currentPathIndex[last'.a] + 1
             /\ path[last'.a] # <<>> =>
                  /\ currentPathIndex[last'.a] + 1 \in DOMAIN path[last'.a]
                  /\ calls'[1].target = path[last'.a][currentPathIndex[last'.a] + 1]]_vars

\* A followPath call reached the last of two waypoints: the path is cleared and the
\* cursor, which stood at 1, is 0 again
C35_Witness ==
  /\ last.op = "followPath"
  /\ last.status = "true"
  /\ calls # <<>>
  /\ calls[1].returned
  /\ path[last.a] = <<>>
  /\ currentPathIndex[last.a] = 0
  /\ \E p \in Paths : Len(p) = 2 /\ p[1] # p[2] /\ calls[1].target = p[2]

\* The index of the point the next patrol tick works on: the stored patrolIndex while
\* the patrol is active for the agent, 0 when the tick starts it
PatrolIndex(a) ==
  IF isRunning[root][a] = Some(TRUE) THEN blackboard[a]["patrolIndex"][1] ELSE 0

\* The agent stands within the stopping distance of the point the next tick works on
AtPatrolPoint(a) ==
  Distance(transform[a][1].position, PatrolPoints(root)[PatrolIndex(a) + 1])
    <= Config.stoppingDistance

\* With blackboard b, path p and cursor c the patrol targets points[i] and patrolIndex is i
PatrolOn(b, p, c, i) ==
  /\ b["patrolIndex"] = Some(i)
  /\ p = <<PatrolPoints(root)[i + 1]>>
  /\ c = 0

Patrolling(a, i) == PatrolOn(blackboard[a], path[a], currentPathIndex[a], i)

\* The same of the state a step leads to
PatrollingNext(a, i) == PatrolOn(blackboard'[a], path'[a], currentPathIndex'[a], i)

\* C36: a patrol over n >= 1 points, ticked on an agent that reaches the waypoints,
\* targets points[0], ..., points[n-1] in that order, patrolIndex being the index of the
\* point targeted; without loop it returns Success exactly on the tick on which the last
\* point is reached and Running before; with loop it never returns Success or Failure
\* and targets points[0] again after points[n-1].
C36_PatrolVisitsPointsInOrder ==
  [][\A a \in Movers :
       (last'.op = "execute" /\ last'.a = a) =>
         LET i == PatrolIndex(a)
             n == Len(PatrolPoints(root))
         IN /\ i \in 0 .. n - 1
            /\ ~AtPatrolPoint(a) => last'.status = RUNNING /\ PatrollingNext(a, i)
            /\ (AtPatrolPoint(a) /\ i + 1 < n) =>
                 last'.status = RUNNING /\ PatrollingNext(a, i + 1)
            /\ (AtPatrolPoint(a) /\ i + 1 = n /\ Loop(root)) =>
                 last'.status = RUNNING /\ PatrollingNext(a, 0)
            /\ (AtPatrolPoint(a) /\ i + 1 = n /\ ~Loop(root)) => last'.status = SUCCESS
            /\ Loop(root) => last'.status = RUNNING]_vars

\* The looping patrol has reached its last point and targets points[0] again
C36_Witness ==
  /\ Loop(root)
  /\ last.op = "execute"
  /\ last.status = RUNNING
  /\ Patrolling(last.a, 0)
  /\ Distance(transform[last.a][1].position,
              PatrolPoints(root)[Len(PatrolPoints(root))]) <= Config.stoppingDistance

\* The member the round from the present state selects
Selected == SelectCurrent(found.s.openSet, found.s.fScore, found.endId)

\* C37: findPath terminates on every finite graph, with cycles, with zero-cost edges
\* between nodes on one point and with edges whose target was put again by a later
\* addNode: a call that has entered its while loop returns; a round puts a node into the
\* frontier only when the node's gScore has strictly decreased, and no gScore rises; the
\* call returns when the frontier is empty or when the end node is selected.
C37_FindPathTerminates ==
  /\ (found.op = "while") ~> (found.op = "findPath")
  /\ [][found.op = "while" =>
          /\ found'.op = "while" =>
               \A id \in NavNodeIds :
                 /\ GetOrInfinity(found'.s.gScore, id) <= GetOrInfinity(found.s.gScore, id)
                 /\ (Includes(found'.s.openSet, id)
                       /\ (id = Selected \/ ~Includes(found.s.openSet, id))) =>
                      GetOrInfinity(found'.s.gScore, id) < GetOrInfinity(found.s.gScore, id)
          /\ found'.op = "findPath" =>
               \/ found.s.openSet = <<>> /\ found'.path = <<>>
               \/ /\ found.s.openSet # <<>>
                  /\ Selected = found.endId
                  /\ found'.path # <<>>]_vars

\* A call on a graph with a cycle through two nodes on one point has returned without a
\* path after three rounds, its frontier empty
C37_Witness ==
  /\ found.op = "findPath"
  /\ found.path = <<>>
  /\ Len(found.rounds) >= 3
  /\ \E id \in NavNodeIds :
       /\ HasEdge(id, found.rounds[1].current)
       /\ HasEdge(found.rounds[1].current, id)
       /\ EdgeCost(id, found.rounds[1].current) = 0

\* The agent registered under the id is as its constructor leaves it
NewAgent(id) ==
  /\ behaviorTree[id] = None
  /\ velocity[id] = Zero
  /\ path[id] = <<>>
  /\ currentPathIndex[id] = 0
  /\ currentTarget[id] = None
  /\ blackboard[id] = EmptyBlackboard

\* C38: what the nodes keep is keyed by the agent's id, not by the agent: createAgent
\* with an id that is registered, or with the id of a removed agent, leaves one registry
\* entry for the id, that of the new agent, and leaves every keyed entry as it is, as
\* does removeAgent; and every node an update executes for an agent starts from the
\* entry kept under the agent's id, so the new agent's first execute on the shared tree
\* goes on from the index, the time and the active flag the previous agent left.
C38_KeyedByIdNotByAgent ==
  /\ last.op = "createAgent" =>
       /\ Cardinality({i \in DOMAIN agents : agents[i] = last.a}) = 1
       /\ NewAgent(last.a)
  /\ [][/\ last'.op \in {"createAgent", "removeAgent"} =>
             /\ currentIndex' = currentIndex
             /\ statuses' = statuses
             /\ isRunning' = isRunning
             /\ timeElapsed' = timeElapsed
        /\ last'.op = "update" =>
             \A k \in DOMAIN calls' :
               calls'[k].op = "execute" =>
                 calls'[k].pre = Own(NodeState, calls'[k].n, calls'[k].a)]_vars

\* createAgent was called with an id under which the shared Sequence holds index 1 and
\* its Wait an accumulated time: a new agent stands in the registry under that id
C38_Witness ==
  /\ last.op = "createAgent"
  /\ NewAgent(last.a)
  /\ InRegistry(last.a)
  /\ root = 23
  /\ currentIndex[23][last.a] = Some(1)
  /\ timeElapsed[25][last.a] # None

\* The ticks of the flee the agent can be given in the present state
FleeTicks(a) ==
  {t \in [dt : DeltaTimes, o : FactoryOracles(root)] : Apart(a, t.o)}

\* The threat of the tick is at fleeDistance or farther from the agent
FarEnough(a, o) ==
  Distance(transform[a][1].position, o.target[1]) >= FleeDistance(root)

\* The status the flee is to return on a tick
FleeStatus(a, o) ==
  IF o.target = None THEN SUCCESS
  ELSE IF transform[a] = None THEN FAILURE
  ELSE IF FarEnough(a, o) THEN SUCCESS
  ELSE RUNNING

\* The waypoint a Running tick of the flee sets
FleeWaypoint(a, o) ==
  IF navigationMesh # None
    THEN getClosestPoint(Mesh, FleeTarget(root, transform[a][1].position, o.target[1]))
    ELSE FleeTarget(root, transform[a][1].position, o.target[1])

\* C39 as stated: a flee returns Success exactly when the target selector returns no
\* position or the agent is at fleeDistance or farther from the threat, Failure exactly
\* when there is a threat and the agent has no transform position, Running otherwise;
\* after every Running tick the agent's path is the single waypoint the tick set, and a
\* Success tick leaves the path in place.
C39_FleeStatusAndSingleWaypoint ==
  Type(root) = "Flee" =>
    \A a \in Movers : \A t \in FleeTicks(a) :
      LET r == execute(root, a, t.dt, t.o, NodeState)
      IN /\ r.status = FleeStatus(a, t.o)
         /\ r.status = RUNNING => r.st.agent[a].path = <<FleeWaypoint(a, t.o)>>
         /\ r.status = SUCCESS => r.st.agent[a].path = path[a]

\* The agent stands within the stopping distance of the waypoint the tick sets
AtFleeWaypoint(a, o) ==
  Distance(transform[a][1].position, FleeWaypoint(a, o)) <= Config.stoppingDistance

\* C39, amended: the statuses as stated; a Running tick sets a path of a single
\* waypoint and follows it, so that after the tick the path is that waypoint, or is
\* empty when the agent stood within the stopping distance of the waypoint; a Success
\* tick leaves the agent's path as it was.
C39_FleeStatusAndWaypointFollowed ==
  Type(root) = "Flee" =>
    \A a \in Movers : \A t \in FleeTicks(a) :
      LET r == execute(root, a, t.dt, t.o, NodeState)
      IN /\ r.status = FleeStatus(a, t.o)
         /\ r.status = RUNNING =>
              /\ r.st.agent[a].path = IF AtFleeWaypoint(a, t.o) THEN <<>>
                                       ELSE <<FleeWaypoint(a, t.o)>>
              /\ r.st.agent[a].currentPathIndex = 0
         /\ r.status = SUCCESS => r.st.agent[a].path = path[a]

\* The flee has returned Success for an agent that has moved, and the waypoint its last
\* Running tick set is still the agent's path
C39_Witness ==
  /\ Type(root) = "Flee"
  /\ last.op = "execute"
  /\ last.status = SUCCESS
  /\ Len(path[last.a]) = 1
  /\ transform[last.a] # None
  /\ transform[last.a][1].position # Zero
====
